---- MODULE Spec2Model ----
(***************************************************************************)
(* share-this-site: the WebRTC file-transfer pipeline.                     *)
(*   - the signaling relay of src/lib/server/websocket.ts (rooms of two)   *)
(*     and the relay written inline in the express server                  *)
(*   - the ICE candidate queue of components/P2PFileShareWebRTC.tsx        *)
(*   - the chunked transfer engine of components/P2PFileShare.tsx and      *)
(*     components/P2PFileShareWebRTC.tsx                                   *)
(* Each subsystem has its own specification; the variables of the other    *)
(* subsystems stay at their initial values under it.                       *)
(***************************************************************************)
EXTENDS Integers, Sequences, FiniteSets, TLC

\* ---------------------------------------------------------------- bounds
\* Events (messages and disconnects) a relay handles in one run.
MaxEvents == 3
\* Remote ICE candidates that arrive at the client in one run.
MaxCandidates == 4

\* The WebSocket connections a relay accepts, the room codes and the peerId
\* strings clients send.
Conns == {1, 2, 3}
RoomCodes == {1, 2}
PeerIds == {1, 2}
Roles == {"sender", "receiver"}
\* A role field the JSON message does not carry (JavaScript undefined).
NoRole == "undefined"
\* A roomCode or peerId field the JSON message does not carry, or carries empty.
NoValue == 0
\* currentClient === null
NoClient == [ws |-> 0, roomCode |-> 0, role |-> "null", peerId |-> 0]

VARIABLES
    \* ---- relay of lib/server/websocket.ts
    server,         \* which relay implementation runs: "websocket.ts" or "inline"
    open,           \* open[c]: connection c is still open
    rooms,          \* Map<string, Client[]>: room code -> sequence of clients
    currentClient,  \* per connection closure variable: a Client or NoClient
    sent,           \* history: the ws.send calls of the event handled last, in order
    events,         \* history: the number of events the relay has handled
    \* ---- relay written inline in the express server
    inlineRooms,    \* Map<string, Array<{ws, role}>>
    inlineClient,   \* per connection closure variable: {roomCode, role} or NoClient
    \* ---- ICE candidate queue of one client of components/P2PFileShareWebRTC.tsx
    roleRef,                  \* roleRef.current: "sender" or "receiver"
    negotiation,              \* where handleOffer / handleAnswer stands
    remoteDescription,        \* pc.remoteDescription is set
    pendingIceCandidatesRef,  \* pendingIceCandidatesRef.current
    queuedCandidates,         \* flushPendingIceCandidates' local: not yet added
    addIceCandidateCalls,     \* the candidates passed to pc.addIceCandidate, in call order
    arrived,                  \* history: candidates 1..arrived have arrived, in this order
    queuedLog,                \* history: the candidates ever queued, in queue order
    \* ---- chunked transfer over one data connection: components/P2PFileShare.tsx
    \*      and components/P2PFileShareWebRTC.tsx
    component,       \* which component runs on both ends
    transport,       \* "loopback": what is sent arrives; "sink": sends are only counted
    fileSize,        \* fileToSend.size
    connOpen,        \* conn.open / dataChannel.readyState = 'open'
    sendingRef,      \* sendingRef.current
    offset,          \* sendFileInChunks' local offset
    scheduled,       \* the sender's pending callback: "reader", "timer" or "none"
    senderStatus,    \* "idle", "sending", "complete" or "error"
    bufferedAmount,  \* dataChannel.bufferedAmount
    channel,         \* the messages sent and not yet delivered, oldest first
    totalSizeRef,    \* receiver: totalSizeRef.current
    receivedSizeRef, \* receiver: receivedSizeRef.current
    chunksRef,       \* receiver: chunksRef.current
    downloads,       \* receiver: the blobs completeFileReceive has downloaded, in order
    receiverStatus,  \* "receiving", "complete" or "error"
    chunksSent,      \* history: the number of file-chunk messages handed to the channel
    metaSent,        \* history: the number of file-meta messages handed to the channel
    ignoredCalls,    \* history: the calls of sendFileInChunks that found a send in flight
    stalled,         \* history: a sendNextChunk found the buffer above the high-water mark
    \* ---- session registry: pages/api/p2p/create.ts and pages/api/p2p/[code].ts
    sessions,        \* the collection "p2p-sessions": code -> session document
    now,             \* Date.now()
    req,             \* req[p]: the request handler p is in, between two awaits
    resp,            \* resp[p]: the Response handler p returned last
    pendingDeletes,  \* pendingDeletes[code]: "ref.delete()" calls not awaited and not yet applied
    \* ---- connection attempts of one P2PFileShare client
    mode,            \* the state mode: "idle", "sending" or "receiving"
    codeState,       \* the state code: "" or the session code
    error,           \* the state error: a message, or "null"
    ctxRole,         \* "none", or the role of the session the client has started
    peerRef,         \* peerRef.current: "null", or the peer "created", "open" or "destroyed"
    connectAttemptRef, \* connectAttemptRef.current: "null" or "ctx"
    aborted,         \* ctx.aborted
    subscribed,      \* the onSnapshot listener of the sender is attached
    connectionRef,   \* connectionRef.current: 0 for null, or an index of conns
    conns,           \* the connections made, in order: attempt number and state
    retries,         \* the attempt numbers of the retry timers pending, oldest first
    receiverConnectTimeoutRef, \* the receiver's wait timer is pending
    doneTimer,       \* the timer set on completion is pending
    deletes,         \* history: the DELETE requests the client has issued
    cleanups,        \* history: the runs of cleanup() since the component was mounted
    \* ---- one client of the polling variant of the component
    pollRole,        \* "sender" or "receiver"
    pollPhase,       \* "idle", "polling" (the interval is set) or "stopped"
    remoteCandidates, \* the length of the remote peer's candidate list in the session
    remoteAnswer,    \* the session holds receiverAnswer
    sessionGone,     \* the session has expired or was deleted
    responses,       \* the fetches of the interval in flight, each with what it will return
    pollTick,        \* the interval's local tick
    polls,           \* history: the number of times the interval has fired
    lastIceCount,    \* lastReceiverIceCount / lastSenderIceCount
    answerReceived,  \* the interval's local answerReceived
    signals,         \* history: the arguments of peer.signal, in call order
    peerDestroyed,   \* peer.destroyed
    \* ---- two P2PFileShareWebRTC clients signalling through one room of websocket.ts
    peerIdRef,         \* peerIdRef.current of each client
    wsRef,             \* wsRef.current of each client: "new" (null, never connected), "open", "closed" (null again)
    peerConnectionRef, \* peerConnectionRef.current of each client is set
    localDescription,  \* pc.localDescription of each client: "null", "offer" or "answer"
    gathering,         \* what each client will send when its wait for ICE gathering ends
    candidatesSent,    \* history: the candidates each client's pc.onicecandidate has sent
    candidatesHandled, \* history: the calls of each client's handleIceCandidate
    uplink,            \* per client connection: what it sent and the relay has not handled yet
    downlink,          \* per client connection: what the relay sent and the client has not handled yet
    relayRoom,         \* rooms.get(roomCode) of the room both clients name
    relayClient,       \* the relay's closure variable currentClient of each connection
    offersCreated,     \* history: the calls of pc.createOffer
    offersHandled,     \* history: the receiver's calls of handleOffer that applied the offer
    answersHandled,    \* history: the sender's calls of handleAnswer that applied the answer
    left               \* history: a client has run cleanup

inlineVars == <<inlineRooms, inlineClient>>
relayVars == <<server, open, rooms, currentClient, sent, events, inlineVars>>
iceVars == <<roleRef, negotiation, remoteDescription, pendingIceCandidatesRef, queuedCandidates,
             addIceCandidateCalls, arrived, queuedLog>>
xferVars == <<component, transport, fileSize, connOpen, sendingRef, offset, scheduled,
              senderStatus, bufferedAmount, channel, totalSizeRef, receivedSizeRef, chunksRef,
              downloads, receiverStatus, chunksSent, metaSent, stalled, ignoredCalls>>
regVars == <<sessions, now, req, resp, pendingDeletes>>
connVars == <<mode, codeState, error, ctxRole, peerRef, connectAttemptRef, aborted, subscribed,
              connectionRef, conns, retries, receiverConnectTimeoutRef, doneTimer, deletes,
              cleanups>>
pollVars == <<pollRole, pollPhase, remoteCandidates, remoteAnswer, sessionGone, responses,
              pollTick, polls, lastIceCount, answerReceived, signals, peerDestroyed>>
sigVars == <<peerIdRef, wsRef, peerConnectionRef, localDescription, gathering, candidatesSent,
             candidatesHandled, uplink, downlink, relayRoom, relayClient, offersCreated,
             offersHandled, answersHandled, left>>
vars == <<relayVars, iceVars, xferVars, regVars, connVars, pollVars, sigVars>>

\* ---------------------------------------------------------------- helpers
\* Array.prototype.find / findIndex on a sequence: the first index whose element
\* satisfies P, 0 when there is none.
FindIndex(s, P(_)) ==
    IF \E i \in 1..Len(s) : P(s[i])
    THEN CHOOSE i \in 1..Len(s) : P(s[i]) /\ \A j \in 1..(i - 1) : ~P(s[j])
    ELSE 0

\* room.splice(index, 1)
Splice(s, i) == [j \in 1..(Len(s) - 1) |-> IF j < i THEN s[j] ELSE s[j + 1]]

\* rooms.get(roomCode) after "if (!rooms.has(roomCode)) rooms.set(roomCode, [])"
RoomOf(m, roomCode) == IF roomCode \in DOMAIN m THEN m[roomCode] ELSE <<>>

\* rooms.set(roomCode, room)
SetRoom(m, roomCode, room) ==
    [r \in DOMAIN m \cup {roomCode} |-> IF r = roomCode THEN room ELSE m[r]]

\* rooms.delete(roomCode)
DeleteRoom(m, roomCode) == [r \in DOMAIN m \ {roomCode} |-> m[r]]

\* One ws.send(JSON.stringify(msg)) to connection c, made by the handler of an
\* event of connection from.
Send(from, c, msg) == [from |-> from, to |-> c, msg |-> msg]

\* The relay handles one more event.
Handled == events < MaxEvents /\ events' = events + 1

ErrorMsg(text) == [type |-> "error", error |-> text]
JoinedMsg(roomCode, role) == [type |-> "joined", roomCode |-> roomCode, role |-> role]
PeerJoinedMsg(role, peerId) == [type |-> "peer-joined", role |-> role, peerId |-> peerId]
PeerLeftMsg(role) == [type |-> "peer-left", role |-> role]
\* offer / answer / ice-candidate as forwarded: the type and the payload only.
ForwardMsg(type) == [type |-> type, payload |-> "payload"]

\* ------------------------------------------- relay: lib/server/websocket.ts
\* "if (room.length >= 2)"
RoomIsFull(room) == Len(room) >= 2

\* Mutants of ExistingRole: the role check left out; the comparison inverted.
ExistingRoleNone(room, role) == 0

ExistingRoleInverted(room, role) == FindIndex(room, LAMBDA c : c.role # role)

\* "room.find(c => c.role === role)"
ExistingRole(room, role) == FindIndex(room, LAMBDA c : c.role = role)

\* "room.find(c => c.peerId !== peerId)"
OtherPeer(room, peerId) == FindIndex(room, LAMBDA c : c.peerId # peerId)

\* "room.findIndex(c => c.peerId === client.peerId)"
IndexOfClient(room, client) == FindIndex(room, LAMBDA c : c.peerId = client.peerId)

\* handleJoin(ws, message): a join message from connection c.
handleJoin(c, roomCode, role, peerId) ==
    /\ server = "websocket.ts"
    /\ open[c]
    /\ Handled
    /\ IF roomCode = NoValue \/ role = NoRole \/ peerId = NoValue
       THEN /\ sent' = <<Send(c, c, ErrorMsg("Missing roomCode, role, or peerId"))>>
            /\ UNCHANGED <<rooms, currentClient>>
       ELSE LET client == [ws |-> c, roomCode |-> roomCode, role |-> role, peerId |-> peerId]
                room == RoomOf(rooms, roomCode)
            IN  /\ currentClient' = [currentClient EXCEPT ![c] = client]
                /\ IF RoomIsFull(room)
                   THEN /\ sent' = <<Send(c, c, ErrorMsg("Room is full"))>>
                        /\ rooms' = SetRoom(rooms, roomCode, room)
                   ELSE IF ExistingRole(room, role) # 0
                   THEN /\ sent' = <<Send(c, c, ErrorMsg("role already exists in this room"))>>
                        /\ rooms' = SetRoom(rooms, roomCode, room)
                   ELSE LET pushed == Append(room, client)
                            other == OtherPeer(pushed, peerId)
                        IN  /\ rooms' = SetRoom(rooms, roomCode, pushed)
                            /\ sent' = <<Send(c, c, JoinedMsg(roomCode, role))>> \o
                                 (IF other # 0
                                  THEN <<Send(c, pushed[other].ws, PeerJoinedMsg(role, peerId)),
                                         Send(c, c, PeerJoinedMsg(pushed[other].role,
                                                               pushed[other].peerId))>>
                                  ELSE <<>>)
    /\ UNCHANGED <<sigVars, pollVars, iceVars, xferVars, regVars, connVars, server, open, inlineVars>>

\* handleOffer / handleAnswer: forward to the member holding targetRole.
ForwardToRole(c, type, roomCode, hasPayload, targetRole) ==
    /\ server = "websocket.ts"
    /\ open[c]
    /\ Handled
    /\ sent' = IF roomCode = NoValue \/ ~hasPayload \/ roomCode \notin DOMAIN rooms
               THEN <<>>
               ELSE LET room == rooms[roomCode]
                        target == FindIndex(room, LAMBDA m : m.role = targetRole)
                    IN  IF target # 0 THEN <<Send(c, room[target].ws, ForwardMsg(type))>>
                        ELSE <<>>
    /\ UNCHANGED <<sigVars, pollVars, iceVars, xferVars, regVars, connVars, server, open, rooms, currentClient, inlineVars>>

\* Mutant of handleOffer: the offer goes to the member holding the sender role.
handleOfferToSender(c, roomCode, hasSdp) ==
    ForwardToRole(c, "offer", roomCode, hasSdp, "sender")

handleOffer(c, roomCode, hasSdp) == ForwardToRole(c, "offer", roomCode, hasSdp, "receiver")

handleAnswer(c, roomCode, hasSdp) == ForwardToRole(c, "answer", roomCode, hasSdp, "sender")

\* "const targetRole = role === 'sender' ? 'receiver' : 'sender'" on the message's role.
TargetRole(role) == IF role = "sender" THEN "receiver" ELSE "sender"

\* handleIceCandidate(message)
handleIceCandidate(c, roomCode, role, hasCandidate) ==
    /\ server = "websocket.ts"
    /\ open[c]
    /\ Handled
    /\ sent' = IF roomCode = NoValue \/ ~hasCandidate \/ roomCode \notin DOMAIN rooms
               THEN <<>>
               ELSE LET room == rooms[roomCode]
                        target == FindIndex(room, LAMBDA m : m.role = TargetRole(role))
                    IN  IF target # 0
                        THEN <<Send(c, room[target].ws, ForwardMsg("ice-candidate"))>>
                        ELSE <<>>
    /\ UNCHANGED <<sigVars, pollVars, iceVars, xferVars, regVars, connVars, server, open, rooms, currentClient, inlineVars>>

\* handleLeave(client): the effect on rooms and the ws.send calls; the caller's
\* closure variable currentClient becomes null.
LeaveRooms(client) ==
    IF client = NoClient \/ client.roomCode \notin DOMAIN rooms
    THEN rooms
    ELSE LET room == rooms[client.roomCode]
             index == IndexOfClient(room, client)
             spliced == IF index # 0 THEN Splice(room, index) ELSE room
         IN  IF Len(spliced) = 0
             THEN DeleteRoom(rooms, client.roomCode)
             ELSE SetRoom(rooms, client.roomCode, spliced)

LeaveSends(c, client) ==
    IF client = NoClient \/ client.roomCode \notin DOMAIN rooms
    THEN <<>>
    ELSE LET room == rooms[client.roomCode]
             index == IndexOfClient(room, client)
             spliced == IF index # 0 THEN Splice(room, index) ELSE room
             other == OtherPeer(spliced, client.peerId)
         IN  IF other # 0 THEN <<Send(c, spliced[other].ws, PeerLeftMsg(client.role))>>
             ELSE <<>>

handleLeave(c) ==
    LET client == currentClient[c]
    IN  /\ Handled
        /\ rooms' = LeaveRooms(client)
        /\ sent' = LeaveSends(c, client)
        /\ currentClient' = [currentClient EXCEPT ![c] = NoClient]

\* ws.on('message') case 'leave'
Leave(c) ==
    /\ server = "websocket.ts"
    /\ open[c]
    /\ handleLeave(c)
    /\ UNCHANGED <<sigVars, pollVars, iceVars, xferVars, regVars, connVars, server, open, inlineVars>>

\* ws.on('close') (and ws.on('error'), which runs the same handler)
Close(c) ==
    /\ server = "websocket.ts"
    /\ open[c]
    /\ handleLeave(c)
    /\ open' = [open EXCEPT ![c] = FALSE]
    /\ UNCHANGED <<sigVars, pollVars, iceVars, xferVars, regVars, connVars, server, inlineVars>>

\* ws.on('message') with data that JSON.parse rejects: the catch block replies.
messageUnparseable(c) ==
    /\ server = "websocket.ts"
    /\ open[c]
    /\ Handled
    /\ sent' = <<Send(c, c, ErrorMsg("Invalid message format"))>>
    /\ UNCHANGED <<sigVars, pollVars, iceVars, xferVars, regVars, connVars, server, open, rooms, currentClient, inlineVars>>

RelayNext ==
    \/ \E c \in Conns : messageUnparseable(c)
    \/ \E c \in Conns, roomCode \in RoomCodes \cup {NoValue}, role \in Roles \cup {NoRole},
          peerId \in PeerIds \cup {NoValue} : handleJoin(c, roomCode, role, peerId)
    \/ \E c \in Conns, roomCode \in RoomCodes \cup {NoValue}, hasSdp \in BOOLEAN :
          handleOffer(c, roomCode, hasSdp)
    \/ \E c \in Conns, roomCode \in RoomCodes \cup {NoValue}, hasSdp \in BOOLEAN :
          handleAnswer(c, roomCode, hasSdp)
    \/ \E c \in Conns, roomCode \in RoomCodes \cup {NoValue}, role \in Roles \cup {NoRole},
          hasCandidate \in BOOLEAN : handleIceCandidate(c, roomCode, role, hasCandidate)
    \/ \E c \in Conns : Leave(c)
    \/ \E c \in Conns : Close(c)

\* --------------------------------- relay written inline in the express server
\* case "join": no field is validated; the closure variable is set on success only.
inlineJoin(c, roomCode, role) ==
    /\ server = "inline"
    /\ open[c]
    /\ Handled
    /\ LET room == RoomOf(inlineRooms, roomCode)
       IN  IF Len(room) >= 2
           THEN /\ sent' = <<Send(c, c, ErrorMsg("Room is full"))>>
                /\ inlineRooms' = SetRoom(inlineRooms, roomCode, room)
                /\ UNCHANGED inlineClient
           ELSE IF \E i \in 1..Len(room) : room[i].role = role
           THEN /\ sent' = <<Send(c, c, ErrorMsg("role already exists in this room"))>>
                /\ inlineRooms' = SetRoom(inlineRooms, roomCode, room)
                /\ UNCHANGED inlineClient
           ELSE LET pushed == Append(room, [ws |-> c, role |-> role])
                    other == FindIndex(pushed, LAMBDA m : m.role # role)
                IN  /\ inlineClient' = [inlineClient EXCEPT ![c] =
                          [ws |-> c, roomCode |-> roomCode, role |-> role, peerId |-> 0]]
                    /\ inlineRooms' = SetRoom(inlineRooms, roomCode, pushed)
                    /\ sent' = <<Send(c, c, JoinedMsg(roomCode, role))>> \o
                         (IF other # 0
                          THEN <<Send(c, c, PeerJoinedMsg(pushed[other].role, NoValue)),
                                 Send(c, pushed[other].ws, PeerJoinedMsg(role, NoValue))>>
                          ELSE <<>>)
    /\ UNCHANGED <<sigVars, pollVars, iceVars, xferVars, regVars, connVars, server, open, rooms, currentClient>>

\* case "offer" | "answer" | "ice-candidate": forward the message as it came to
\* the member whose role is not the role this connection joined with.
inlineForward(c, type) ==
    /\ server = "inline"
    /\ open[c]
    /\ Handled
    /\ sent' = IF inlineClient[c] = NoClient
               THEN <<Send(c, c, ErrorMsg("Not in a room"))>>
               ELSE IF inlineClient[c].roomCode \notin DOMAIN inlineRooms
               THEN <<Send(c, c, ErrorMsg("Room not found"))>>
               ELSE LET room == inlineRooms[inlineClient[c].roomCode]
                        other == FindIndex(room, LAMBDA m : m.role # inlineClient[c].role)
                    IN  IF other # 0 THEN <<Send(c, room[other].ws, ForwardMsg(type))>>
                        ELSE <<>>
    /\ UNCHANGED <<sigVars, pollVars, iceVars, xferVars, regVars, connVars, server, open, rooms, currentClient, inlineRooms, inlineClient>>

\* The body shared by case "leave" and ws.on("close"): remove this connection's
\* entry from the room its closure variable names, tell room[0], drop an empty room.
inlineRemove(c) ==
    LET client == inlineClient[c]
    IN  IF client = NoClient \/ client.roomCode \notin DOMAIN inlineRooms
        THEN /\ sent' = <<>>
             /\ UNCHANGED inlineRooms
        ELSE LET room == inlineRooms[client.roomCode]
                 index == FindIndex(room, LAMBDA m : m.ws = c)
                 spliced == Splice(room, index)
             IN  IF index = 0
                 THEN /\ sent' = <<>>
                      /\ UNCHANGED inlineRooms
                 ELSE /\ sent' = IF Len(spliced) > 0
                                 THEN <<Send(c, spliced[1].ws, [type |-> "peer-left"])>>
                                 ELSE <<>>
                      /\ inlineRooms' = IF Len(spliced) = 0
                                        THEN DeleteRoom(inlineRooms, client.roomCode)
                                        ELSE SetRoom(inlineRooms, client.roomCode, spliced)

\* case "leave"
inlineLeave(c) ==
    /\ server = "inline"
    /\ open[c]
    /\ Handled
    /\ inlineRemove(c)
    /\ inlineClient' = [inlineClient EXCEPT ![c] = NoClient]
    /\ UNCHANGED <<sigVars, pollVars, iceVars, xferVars, regVars, connVars, server, open, rooms, currentClient>>

\* ws.on("close"): the closure variable is left as it is.
inlineClose(c) ==
    /\ server = "inline"
    /\ open[c]
    /\ Handled
    /\ inlineRemove(c)
    /\ open' = [open EXCEPT ![c] = FALSE]
    /\ UNCHANGED <<sigVars, pollVars, iceVars, xferVars, regVars, connVars, server, rooms, currentClient, inlineClient>>

InlineNext ==
    \/ \E c \in Conns, roomCode \in RoomCodes, role \in Roles \cup {NoRole} :
          inlineJoin(c, roomCode, role)
    \/ \E c \in Conns, type \in {"offer", "answer", "ice-candidate"} : inlineForward(c, type)
    \/ \E c \in Conns : inlineLeave(c)
    \/ \E c \in Conns : inlineClose(c)

\* ------------- ICE candidate queue: components/P2PFileShareWebRTC.tsx
\* The client has joined and created its RTCPeerConnection.  Remote candidates
\* are numbered 1, 2, ... in the order ws.onmessage observes them.  Every await
\* of the async handlers is a point where another message handler may run.

\* Mutant of SpliceAll: the first queued candidate is left out.
SpliceAllButFirst(pending) == Tail(pending)

\* "pendingIceCandidatesRef.current.splice(0)": the whole queue, in queue order.
SpliceAll(pending) == pending

\* flushPendingIceCandidates up to its first await: take the whole queue and call
\* pc.addIceCandidate for its first element.  next is the handler's position when
\* the queue is empty and the flush returns at once.
flushPendingIceCandidates ==
    IF Len(pendingIceCandidatesRef) = 0
    THEN /\ negotiation' = "done"
         /\ UNCHANGED <<pendingIceCandidatesRef, queuedCandidates, addIceCandidateCalls>>
    ELSE LET queued == SpliceAll(pendingIceCandidatesRef)
         IN  /\ pendingIceCandidatesRef' = <<>>
             /\ IF Len(queued) = 0
                THEN /\ negotiation' = "done"
                     /\ UNCHANGED <<queuedCandidates, addIceCandidateCalls>>
                ELSE /\ addIceCandidateCalls' = Append(addIceCandidateCalls, Head(queued))
                     /\ queuedCandidates' = Tail(queued)
                     /\ negotiation' = "flush"

\* ws.onmessage case 'ice-candidate': handleIceCandidate(candidate)
IceCandidateArrives ==
    /\ arrived < MaxCandidates
    /\ arrived' = arrived + 1
    /\ IF ~remoteDescription
       THEN /\ pendingIceCandidatesRef' = Append(pendingIceCandidatesRef, arrived + 1)
            /\ queuedLog' = Append(queuedLog, arrived + 1)
            /\ UNCHANGED addIceCandidateCalls
       ELSE /\ addIceCandidateCalls' = Append(addIceCandidateCalls, arrived + 1)
            /\ UNCHANGED <<pendingIceCandidatesRef, queuedLog>>
    /\ UNCHANGED <<sigVars, pollVars, relayVars, xferVars, regVars, connVars, roleRef, negotiation, remoteDescription, queuedCandidates>>

\* ws.onmessage case 'offer' (receiver) / case 'answer' (sender): handleOffer or
\* handleAnswer starts and awaits pc.setRemoteDescription.
DescriptionArrives ==
    /\ negotiation = "waiting"
    /\ negotiation' = "setRemoteDescription"
    /\ UNCHANGED <<sigVars, pollVars, relayVars, xferVars, regVars, connVars, roleRef, remoteDescription, pendingIceCandidatesRef,
                   queuedCandidates, addIceCandidateCalls, arrived, queuedLog>>

\* pc.setRemoteDescription resolves.  handleAnswer goes on to the flush in the same
\* turn; handleOffer awaits pc.createAnswer first.
SetRemoteDescriptionResolves ==
    /\ negotiation = "setRemoteDescription"
    /\ remoteDescription' = TRUE
    /\ IF roleRef = "sender"
       THEN flushPendingIceCandidates
       ELSE /\ negotiation' = "createAnswer"
            /\ UNCHANGED <<pendingIceCandidatesRef, queuedCandidates, addIceCandidateCalls>>
    /\ UNCHANGED <<sigVars, pollVars, relayVars, xferVars, regVars, connVars, roleRef, arrived, queuedLog>>

\* handleOffer: pc.createAnswer resolves, pc.setLocalDescription is awaited.
CreateAnswerResolves ==
    /\ negotiation = "createAnswer"
    /\ negotiation' = "setLocalDescription"
    /\ UNCHANGED <<sigVars, pollVars, relayVars, xferVars, regVars, connVars, roleRef, remoteDescription, pendingIceCandidatesRef,
                   queuedCandidates, addIceCandidateCalls, arrived, queuedLog>>

\* handleOffer: pc.setLocalDescription resolves, the flush starts.
SetLocalDescriptionResolves ==
    /\ negotiation = "setLocalDescription"
    /\ flushPendingIceCandidates
    /\ UNCHANGED <<sigVars, pollVars, relayVars, xferVars, regVars, connVars, roleRef, remoteDescription, arrived, queuedLog>>

\* The flush loop: the awaited pc.addIceCandidate settles, the next queued
\* candidate is added, or the loop ends.
AddIceCandidateSettles ==
    /\ negotiation = "flush"
    /\ IF Len(queuedCandidates) = 0
       THEN /\ negotiation' = "done"
            /\ UNCHANGED <<queuedCandidates, addIceCandidateCalls>>
       ELSE /\ addIceCandidateCalls' = Append(addIceCandidateCalls, Head(queuedCandidates))
            /\ queuedCandidates' = Tail(queuedCandidates)
            /\ UNCHANGED negotiation
    /\ UNCHANGED <<sigVars, pollVars, relayVars, xferVars, regVars, connVars, roleRef, remoteDescription, pendingIceCandidatesRef,
                   arrived, queuedLog>>

IceNext ==
    \/ IceCandidateArrives
    \/ DescriptionArrives
    \/ SetRemoteDescriptionResolves
    \/ CreateAnswerResolves
    \/ SetLocalDescriptionResolves
    \/ AddIceCandidateSettles

\* ------------- chunked transfer: components/P2PFileShare.tsx (PeerJS connection)
\* and components/P2PFileShareWebRTC.tsx (raw RTCDataChannel)
\* A file is its size; a run of its bytes is <<start, byteLength>>, so that two
\* byte sequences are equal exactly when they are the same runs of the same file.

CHUNK_SIZE == 16384

MAX_BUFFERED_AMOUNT == 16 * 1024 * 1024

\* The calls of sendFileInChunks that find a send in flight.
MaxIgnoredCalls == 1

\* Files sent over the loopback transport have at most MaxChunks chunks.
MaxChunks == 3

Components == {"P2PFileShare", "P2PFileShareWebRTC"}

\* File.size of the files sent over the loopback transport: empty, shorter than a
\* chunk, whole chunks, and whole chunks followed by a shorter one.
FileSizes ==
    {0} \cup {k * CHUNK_SIZE + r : k \in 0..(MaxChunks - 1), r \in {1, 10000, CHUNK_SIZE}}

\* File.size of the file sent into the sink transport: two chunks and a byte more
\* than the high-water mark.
LargeFileSize == MAX_BUFFERED_AMOUNT + 2 * CHUNK_SIZE + 1

\* The transport takes bytes out of the outbound buffer DrainUnit at a time.
DrainUnit == 4 * 1024 * 1024

Min(a, b) == IF a < b THEN a ELSE b

\* Mutant of Slice: the end of the slice is not clamped to the end of the file.
SliceUnclamped(size, start, end) ==
    [kind |-> "ArrayBuffer", start |-> start, byteLength |-> end - start]

\* fileToSend.slice(start, end) read by the FileReader: Blob.slice clamps end to
\* the size of the blob.
Slice(size, start, end) ==
    [kind |-> "ArrayBuffer", start |-> start, byteLength |-> Min(end, size) - start]

\* What the receiver finds in message.data.  conn.send of PeerJS serialises the
\* ArrayBuffer as binary; JSON.stringify of an ArrayBuffer is "{}", which parses
\* to an empty object.
Serialised(msg) ==
    IF component = "P2PFileShare" \/ msg.type # "file-chunk"
    THEN msg
    ELSE [msg EXCEPT !.data = [kind |-> "Object"]]

\* The length of JSON.stringify({type: 'file-chunk', data: <ArrayBuffer>}),
\* that is of {"type":"file-chunk","data":{}}.
JsonChunkLength == 31

\* The bytes a message adds to dataChannel.bufferedAmount.  The few bytes of the
\* metadata message and of the framing are not counted.
WireSize(msg) ==
    IF msg.type # "file-chunk" THEN 0
    ELSE IF component = "P2PFileShare" THEN msg.data.byteLength ELSE JsonChunkLength

\* fileToSend.name
FileName == "a.txt"

\* Mutant of MetaMsg: the metadata carries the size only.
MetaMsgSizeOnly(name, size) ==
    [type |-> "file-meta", name |-> "", size |-> size, data |-> [kind |-> "none"]]

\* {type: 'file-meta', name: fileToSend.name, size: fileToSend.size}
MetaMsg(name, size) ==
    [type |-> "file-meta", name |-> name, size |-> size, data |-> [kind |-> "none"]]

ChunkMsg(data) == [type |-> "file-chunk", name |-> "", size |-> 0, data |-> data]

\* conn.send(msg) / dataChannelRef.current.send(JSON.stringify(msg))
ConnSend(msg) ==
    /\ bufferedAmount' = bufferedAmount + WireSize(msg)
    /\ channel' = IF transport = "loopback" THEN Append(channel, Serialised(msg)) ELSE channel
    /\ metaSent' = IF msg.type = "file-meta" THEN metaSent + 1 ELSE metaSent

\* Mutant of AboveHighWater: the backpressure test never holds the sender back.
AboveHighWaterNever(buffered) == FALSE

\* "dataChannel.bufferedAmount > MAX_BUFFERED_AMOUNT"
AboveHighWater(buffered) == buffered > MAX_BUFFERED_AMOUNT

\* sendNextChunk, called with the values its caller has just assigned.
sendNextChunk(sending, status, buffered, off) ==
    IF ~connOpen
    THEN /\ sendingRef' = FALSE
         /\ senderStatus' = IF component = "P2PFileShare" THEN status ELSE "error"
         /\ scheduled' = "none"
         /\ UNCHANGED stalled
    ELSE IF AboveHighWater(buffered)
    THEN /\ scheduled' = "timer"
         /\ stalled' = TRUE
         /\ sendingRef' = sending
         /\ senderStatus' = status
    ELSE IF off < fileSize
    THEN /\ scheduled' = "reader"
         /\ sendingRef' = sending
         /\ senderStatus' = status
         /\ UNCHANGED stalled
    ELSE /\ scheduled' = "none"
         /\ sendingRef' = FALSE
         /\ senderStatus' = "complete"
         /\ UNCHANGED stalled

\* Mutant of AlreadySending: sendFileInChunks does not look at sendingRef.
AlreadySendingNever(sending) == FALSE

\* "if (sendingRef.current) ... return;"
AlreadySending(sending) == sending

\* The connection's 'open' handler: sendFileInChunks sends the metadata and
\* calls sendNextChunk.
sendFileInChunks ==
    /\ senderStatus = "idle"
    /\ connOpen
    /\ ~AlreadySending(sendingRef)
    /\ ConnSend(MetaMsg(FileName, fileSize))
    /\ sendNextChunk(TRUE, "sending", bufferedAmount, 0)
    /\ UNCHANGED <<sigVars, pollVars, relayVars, iceVars, regVars, connVars, ignoredCalls, component, transport, fileSize, connOpen, offset,
                   totalSizeRef, receivedSizeRef, chunksRef, downloads, receiverStatus,
                   chunksSent>>

\* The client calls sendFileInChunks for the file while its send is in flight
\* (the 'open' handler of another connection attempt it has made): the call
\* returns at once; were it to go on, it would send the metadata and start a
\* loop of its own at offset 0.
sendFileInChunksAgain ==
    /\ sendingRef
    /\ connOpen
    /\ ignoredCalls < MaxIgnoredCalls
    /\ ignoredCalls' = ignoredCalls + 1
    /\ IF AlreadySending(sendingRef)
       THEN UNCHANGED <<sendingRef, offset, scheduled, senderStatus, bufferedAmount, channel,
                        metaSent, stalled>>
       ELSE /\ ConnSend(MetaMsg(FileName, fileSize))
            /\ offset' = 0
            /\ sendNextChunk(TRUE, "sending", bufferedAmount, 0)
    /\ UNCHANGED <<sigVars, pollVars, relayVars, iceVars, regVars, connVars, component, transport, fileSize, connOpen,
                   totalSizeRef, receivedSizeRef, chunksRef, downloads, receiverStatus,
                   chunksSent>>

\* reader.onload: the slice at offset has been read.
readerOnload ==
    /\ scheduled = "reader"
    /\ IF component = "P2PFileShare" /\ ~connOpen
       THEN \* setError, cleanup()
            /\ sendingRef' = FALSE
            /\ senderStatus' = "error"
            /\ scheduled' = "none"
            /\ UNCHANGED <<offset, bufferedAmount, channel, chunksSent, metaSent, stalled>>
       ELSE IF ~connOpen
       THEN \* RTCDataChannel.send throws on a closed channel: onload ends here
            /\ scheduled' = "none"
            /\ UNCHANGED <<sendingRef, senderStatus, offset, bufferedAmount, channel,
                           chunksSent, metaSent, stalled>>
       ELSE LET result == Slice(fileSize, offset, offset + CHUNK_SIZE)
                chunk == ChunkMsg(result)
            IN  /\ ConnSend(chunk)
                /\ chunksSent' = chunksSent + 1
                /\ offset' = offset + result.byteLength
                /\ sendNextChunk(sendingRef, senderStatus,
                                 bufferedAmount + WireSize(chunk),
                                 offset + result.byteLength)
    /\ UNCHANGED <<sigVars, pollVars, relayVars, iceVars, regVars, connVars, ignoredCalls, component, transport, fileSize, connOpen,
                   totalSizeRef, receivedSizeRef, chunksRef, downloads, receiverStatus>>

\* The timer set by "setTimeout(sendNextChunk, 50)" (100 in the WebRTC component).
backpressureTimer ==
    /\ scheduled = "timer"
    /\ sendNextChunk(sendingRef, senderStatus, bufferedAmount, offset)
    /\ UNCHANGED <<sigVars, pollVars, relayVars, iceVars, regVars, connVars, ignoredCalls, component, transport, fileSize, connOpen, offset,
                   bufferedAmount, channel, totalSizeRef, receivedSizeRef, chunksRef,
                   downloads, receiverStatus, chunksSent, metaSent>>

\* The transport sends DrainUnit buffered bytes.
Drain ==
    /\ connOpen
    /\ bufferedAmount >= DrainUnit
    /\ bufferedAmount' = bufferedAmount - DrainUnit
    /\ UNCHANGED <<sigVars, pollVars, relayVars, iceVars, regVars, connVars, ignoredCalls, component, transport, fileSize, connOpen, sendingRef,
                   offset, scheduled, senderStatus, channel, totalSizeRef, receivedSizeRef,
                   chunksRef, downloads, receiverStatus, chunksSent, metaSent, stalled>>

\* new Uint8Array(payload) of an ArrayBuffer; of anything else,
\* new Uint8Array(payload.buffer, payload.byteOffset, payload.byteLength) with
\* three undefined arguments: an empty array.
ChunkArray(payload) ==
    IF payload.kind = "ArrayBuffer"
    THEN [start |-> payload.start, byteLength |-> payload.byteLength]
    ELSE [start |-> 0, byteLength |-> 0]

\* Mutant of ReceiveComplete: the first bytes received complete the transfer.
ReceiveCompleteEarly(total, received) == total > 0 /\ received > 0

\* "totalSizeRef.current > 0 && receivedSizeRef.current >= totalSizeRef.current"
ReceiveComplete(total, received) == total > 0 /\ received >= total

\* The receiver's 'data' handler for the oldest message in flight: the metadata
\* resets the refs; a chunk goes to handleIncomingChunk, which calls
\* completeFileReceive once the declared size has been received.
Deliver ==
    /\ connOpen
    /\ channel # <<>>
    /\ LET message == Head(channel)
       IN  /\ channel' = Tail(channel)
           /\ bufferedAmount' = bufferedAmount - WireSize(message)
           /\ IF message.type = "file-meta"
              THEN /\ totalSizeRef' = message.size
                   /\ chunksRef' = <<>>
                   /\ receivedSizeRef' = 0
                   /\ UNCHANGED <<downloads, receiverStatus>>
              ELSE LET chunkArray == ChunkArray(message.data)
                       chunks == Append(chunksRef, chunkArray)
                       received == receivedSizeRef + chunkArray.byteLength
                   IN  /\ receivedSizeRef' = received
                       /\ IF ReceiveComplete(totalSizeRef, received)
                          THEN /\ downloads' = Append(downloads, chunks)
                               /\ chunksRef' = <<>>
                               /\ receiverStatus' = "complete"
                          ELSE /\ chunksRef' = chunks
                               /\ UNCHANGED <<downloads, receiverStatus>>
                       /\ UNCHANGED totalSizeRef
    /\ UNCHANGED <<sigVars, pollVars, relayVars, iceVars, regVars, connVars, ignoredCalls, component, transport, fileSize, connOpen, sendingRef,
                   offset, scheduled, senderStatus, chunksSent, metaSent, stalled>>

\* The connection closes: what is in flight is lost and both ends run their
\* 'close' handlers.  Those of P2PFileShare call cleanup() when the transfer is
\* not over; channel.onclose of the WebRTC component only logs.
ConnectionCloses ==
    /\ connOpen
    /\ senderStatus # "idle"
    /\ connOpen' = FALSE
    /\ channel' = <<>>
    /\ IF component = "P2PFileShare" /\ sendingRef
       THEN /\ sendingRef' = FALSE
            /\ senderStatus' = "error"
       ELSE UNCHANGED <<sendingRef, senderStatus>>
    /\ IF component = "P2PFileShare" /\ receivedSizeRef < totalSizeRef
       THEN /\ receiverStatus' = "error"
            /\ chunksRef' = <<>>
            /\ receivedSizeRef' = 0
            /\ totalSizeRef' = 0
       ELSE UNCHANGED <<receiverStatus, chunksRef, receivedSizeRef, totalSizeRef>>
    /\ UNCHANGED <<sigVars, pollVars, relayVars, iceVars, regVars, connVars, ignoredCalls, component, transport, fileSize, offset, scheduled,
                   bufferedAmount, downloads, chunksSent, metaSent, stalled>>

\* The timer set by sendNextChunk 3 s after it has reported success fires:
\* cleanup() closes the connection and destroys the peer, whatever is still
\* buffered is lost, the receiver's 'close' handler runs, and resetToIdle().
postSuccessCleanup ==
    /\ component = "P2PFileShare"
    /\ senderStatus = "complete"
    /\ senderStatus' = "reset"
    /\ sendingRef' = FALSE
    /\ IF connOpen
       THEN /\ connOpen' = FALSE
            /\ channel' = <<>>
            /\ IF receivedSizeRef < totalSizeRef
               THEN /\ receiverStatus' = "error"
                    /\ chunksRef' = <<>>
                    /\ receivedSizeRef' = 0
                    /\ totalSizeRef' = 0
               ELSE UNCHANGED <<receiverStatus, chunksRef, receivedSizeRef, totalSizeRef>>
       ELSE UNCHANGED <<connOpen, channel, receiverStatus, chunksRef, receivedSizeRef,
                        totalSizeRef>>
    /\ UNCHANGED <<sigVars, pollVars, relayVars, iceVars, regVars, connVars, ignoredCalls, component,
                   transport, fileSize, offset, scheduled, bufferedAmount, downloads, chunksSent,
                   metaSent, stalled>>

TransferNext ==
    \/ sendFileInChunks
    \/ sendFileInChunksAgain
    \/ readerOnload
    \/ backpressureTimer
    \/ Drain
    \/ Deliver
    \/ ConnectionCloses
    \/ postSuccessCleanup

\* The data connection has just opened.
InitXferVars ==
    /\ component \in Components
    /\ transport \in {"loopback", "sink"}
    /\ fileSize \in (IF transport = "loopback" THEN FileSizes ELSE {LargeFileSize})
    /\ connOpen = TRUE
    /\ sendingRef = FALSE
    /\ offset = 0
    /\ scheduled = "none"
    /\ senderStatus = "idle"
    /\ bufferedAmount = 0
    /\ channel = <<>>
    /\ totalSizeRef = fileSize   \* handleReceiveFile: totalSizeRef.current = data.fileSize
    /\ receivedSizeRef = 0
    /\ chunksRef = <<>>
    /\ downloads = <<>>
    /\ receiverStatus = "receiving"
    /\ chunksSent = 0
    /\ metaSent = 0
    /\ stalled = FALSE
    /\ ignoredCalls = 0

\* No file has been chosen yet.
IdleXferVars ==
    /\ InitXferVars
    /\ component = "P2PFileShare"
    /\ transport = "loopback"
    /\ fileSize = 0

\* ------------- session registry: pages/api/p2p/create.ts (POST) and
\* pages/api/p2p/[code].ts (GET, PATCH, DELETE) over the Firestore collection
\* "p2p-sessions".  A handler runs from one await to the next in one step; each
\* ref.get(), ref.set(), ref.update() and ref.delete() it awaits takes effect in
\* the step that resumes the handler.  The "ref.delete()" that GET and PATCH do
\* not await takes effect in a step of its own.

\* The requests the registry serves, one handler each; they may overlap.
Procs == {1, 2}

\* The clock advances at most MaxTicks times, by TickMs.
MaxTicks == 1

\* "30 * 60 * 1000"
TTL == 30 * 60 * 1000

TickMs == TTL

\* "while (attempts++ < 50)"
MaxAttempts == 50

\* Math.random() as the numerator of a fraction of RandomDenominator: the
\* smallest and the largest value it can return.
RandomDenominator == 1000

Randoms == {0, RandomDenominator - 1}

\* generateCode(): Math.floor(100000 + Math.random() * 900000)
generateCode(r) == 100000 + (r * 900000) \div RandomDenominator

\* The codes clients ask for: those generateCode can draw here.
Codes == {generateCode(r) : r \in Randoms}

\* The number of characters of n.toString() for n >= 0.
RECURSIVE Digits(_)
Digits(n) == IF n < 10 THEN 1 ELSE 1 + Digits(n \div 10)

NoSession == [exists |-> FALSE]

\* The bodies of the create requests: with a file type, with an empty one, and
\* without a file name.
CreateBodies ==
    {[fileName |-> "a.txt", fileSize |-> 1, fileType |-> "text/plain"],
     [fileName |-> "a.txt", fileSize |-> 1, fileType |-> ""],
     [fileName |-> "", fileSize |-> 1, fileType |-> "text/plain"]}

NoCreateBody == [fileName |-> "", fileSize |-> 0, fileType |-> ""]

\* Mutant of DefaultFileType: an empty file type is stored as it came.
FileTypeAsGiven(fileType) == fileType

\* "fileType || 'application/octet-stream'"
DefaultFileType(fileType) == IF fileType = "" THEN "application/octet-stream" ELSE fileType

\* The document ref.set() writes.  createdAt is the server's time of the write,
\* the time that expireAt was computed from.
NewSession(body, expireAt) ==
    [exists |-> TRUE,
     fileName |-> body.fileName,
     fileSize |-> body.fileSize,
     fileType |-> DefaultFileType(body.fileType),
     createdAt |-> expireAt - TTL,
     expireAt |-> expireAt,
     active |-> TRUE,
     senderConnected |-> TRUE,
     receiverConnected |-> FALSE,
     senderOffer |-> "null",
     receiverAnswer |-> "null",
     senderIceCandidates |-> <<>>,
     receiverIceCandidates |-> <<>>]

\* The bodies of the update requests of handler p; has is the set of the fields
\* that are not undefined.
PatchBody(has, p) ==
    [has |-> has, senderOffer |-> "offer", receiverAnswer |-> "answer",
     senderIceCandidate |-> p, receiverIceCandidate |-> p,
     senderConnected |-> FALSE, receiverConnected |-> TRUE, active |-> FALSE]

\* A candidate that a stored list may hold already.
StoredCandidate == 3

PatchBodies(p) ==
    {PatchBody(has, p) : has \in {{"senderIceCandidate"}, {"receiverIceCandidate"},
                                  {"senderOffer", "receiverAnswer", "senderConnected",
                                   "receiverConnected"},
                                  {"active"}}}
    \cup {PatchBody({"senderIceCandidate"}, StoredCandidate)}

NoPatchBody == PatchBody({}, 0)

\* Mutants of ArrayUnion: the element is put in front; the list is replaced.
ArrayUnionInFront(list, x) ==
    IF \E i \in 1..Len(list) : list[i] = x THEN list ELSE <<x>> \o list

ArrayUnionReplaces(list, x) == <<x>>

\* FieldValue.arrayUnion(x) applied to the stored list: x is appended unless the
\* list holds it already.
ArrayUnion(list, x) ==
    IF \E i \in 1..Len(list) : list[i] = x THEN list ELSE Append(list, x)

\* Mutant of Updated: every update also renews the session's lifetime.
UpdatedRenews(doc, body) ==
    [doc EXCEPT
       !.expireAt = @ + TTL,
       !.senderOffer = IF "senderOffer" \in body.has THEN body.senderOffer ELSE @,
       !.receiverAnswer = IF "receiverAnswer" \in body.has THEN body.receiverAnswer ELSE @,
       !.senderIceCandidates = IF "senderIceCandidate" \in body.has
                               THEN ArrayUnion(@, body.senderIceCandidate) ELSE @,
       !.receiverIceCandidates = IF "receiverIceCandidate" \in body.has
                                 THEN ArrayUnion(@, body.receiverIceCandidate) ELSE @,
       !.senderConnected = IF "senderConnected" \in body.has THEN body.senderConnected ELSE @,
       !.receiverConnected = IF "receiverConnected" \in body.has
                             THEN body.receiverConnected ELSE @,
       !.active = IF "active" \in body.has THEN body.active ELSE @]

\* ref.update(updates) applied to the stored document.
Updated(doc, body) ==
    [doc EXCEPT
       !.senderOffer = IF "senderOffer" \in body.has THEN body.senderOffer ELSE @,
       !.receiverAnswer = IF "receiverAnswer" \in body.has THEN body.receiverAnswer ELSE @,
       !.senderIceCandidates = IF "senderIceCandidate" \in body.has
                               THEN ArrayUnion(@, body.senderIceCandidate) ELSE @,
       !.receiverIceCandidates = IF "receiverIceCandidate" \in body.has
                                 THEN ArrayUnion(@, body.receiverIceCandidate) ELSE @,
       !.senderConnected = IF "senderConnected" \in body.has THEN body.senderConnected ELSE @,
       !.receiverConnected = IF "receiverConnected" \in body.has
                             THEN body.receiverConnected ELSE @,
       !.active = IF "active" \in body.has THEN body.active ELSE @]

\* "!data?.expireAt || data.expireAt.toMillis() <= Date.now()"
Expired(doc, time) == doc.expireAt <= time

\* Mutant of Stale: a session marked inactive counts as live until it expires.
StaleWhenExpired(doc, time) == Expired(doc, time)

\* "expired || data?.active === false"
Stale(doc, time) == Expired(doc, time) \/ doc.active = FALSE

\* The JSON GET returns for a live session.
SessionJson(code, doc) ==
    [code |-> code, fileName |-> doc.fileName, fileSize |-> doc.fileSize,
     fileType |-> doc.fileType, senderConnected |-> doc.senderConnected,
     receiverConnected |-> doc.receiverConnected, senderOffer |-> doc.senderOffer,
     receiverAnswer |-> doc.receiverAnswer,
     senderIceCandidates |-> doc.senderIceCandidates,
     receiverIceCandidates |-> doc.receiverIceCandidates]

NoJson == [code |-> 0]

Idle == [op |-> "idle", code |-> 0, attempts |-> 0, expireAt |-> 0,
         create |-> NoCreateBody, patch |-> NoPatchBody]

\* new Response(...): op is the handler, status the HTTP status.
Response(op, status, code, json) == [op |-> op, status |-> status, code |-> code, json |-> json]

Done == [op |-> "done", code |-> 0, attempts |-> 0, expireAt |-> 0,
         create |-> NoCreateBody, patch |-> NoPatchBody]

\* Handler p returns response r; what stays of the request is the update it
\* carried.
Returns(p, r) ==
    /\ req' = [req EXCEPT ![p] = [Done EXCEPT !.patch = req[p].patch]]
    /\ resp' = [resp EXCEPT ![p] = r]

\* One turn of POST's loop after "await ref.get()" of the drawn code: the handler
\* goes on to ref.set() when the code is free or its session is stale, draws the
\* next code when attempts are left, and gives up otherwise.
AfterRead(p, body, code, attempts) ==
    IF ~sessions[code].exists \/ Stale(sessions[code], now)
    THEN /\ req' = [req EXCEPT ![p] = [op |-> "POST set", code |-> code, attempts |-> 0,
                                       expireAt |-> now + TTL, create |-> body,
                                       patch |-> NoPatchBody]]
         /\ UNCHANGED resp
    ELSE IF attempts < MaxAttempts
    THEN /\ req' = [req EXCEPT ![p] = [op |-> "POST get", code |-> 0, attempts |-> attempts,
                                       expireAt |-> 0, create |-> body, patch |-> NoPatchBody]]
         /\ UNCHANGED resp
    ELSE Returns(p, Response("POST", 500, 0, NoJson))

\* POST: the request arrives, the body is validated, the first code is drawn
\* and read.
POST(p, body, r) ==
    /\ req[p].op = "idle"
    /\ IF body.fileName = "" \/ body.fileSize = 0
       THEN Returns(p, Response("POST", 400, 0, NoJson))
       ELSE AfterRead(p, body, generateCode(r), 1)
    /\ UNCHANGED <<sigVars, pollVars, relayVars, iceVars, xferVars, connVars, sessions, now, pendingDeletes>>

\* POST: the next turn of the loop.
POSTretry(p, r) ==
    /\ req[p].op = "POST get"
    /\ AfterRead(p, req[p].create, generateCode(r), req[p].attempts + 1)
    /\ UNCHANGED <<sigVars, pollVars, relayVars, iceVars, xferVars, connVars, sessions, now, pendingDeletes>>

\* POST: "await ref.set({...})" and the 201 response.
POSTset(p) ==
    /\ req[p].op = "POST set"
    /\ sessions' = [sessions EXCEPT ![req[p].code] = NewSession(req[p].create, req[p].expireAt)]
    /\ Returns(p, Response("POST", 201, req[p].code, NoJson))
    /\ UNCHANGED <<sigVars, pollVars, relayVars, iceVars, xferVars, connVars, now, pendingDeletes>>

\* The Response of GET when ref.get() returns doc at the given time.
GetResponse(doc, time, code) ==
    IF ~doc.exists THEN Response("GET", 404, code, NoJson)
    ELSE IF Stale(doc, time) THEN Response("GET", 410, code, NoJson)
    ELSE Response("GET", 200, code, SessionJson(code, doc))

\* GET: a stale session is deleted without awaiting the delete.
GET(p, code) ==
    /\ req[p].op = "idle"
    /\ Returns(p, GetResponse(sessions[code], now, code))
    /\ pendingDeletes' = IF sessions[code].exists /\ Stale(sessions[code], now)
                         THEN [pendingDeletes EXCEPT ![code] = @ + 1]
                         ELSE pendingDeletes
    /\ UNCHANGED <<sigVars, pollVars, relayVars, iceVars, xferVars, connVars, sessions, now>>

\* PATCH up to "await ref.update(updates)".
PATCH(p, code, body) ==
    /\ req[p].op = "idle"
    /\ IF ~sessions[code].exists
       THEN /\ Returns(p, Response("PATCH", 404, code, NoJson))
            /\ UNCHANGED pendingDeletes
       ELSE IF Stale(sessions[code], now)
       THEN /\ pendingDeletes' = [pendingDeletes EXCEPT ![code] = @ + 1]
            /\ Returns(p, Response("PATCH", 410, code, NoJson))
       ELSE /\ req' = [req EXCEPT ![p] = [op |-> "PATCH update", code |-> code, attempts |-> 0,
                                          expireAt |-> 0, create |-> NoCreateBody,
                                          patch |-> body]]
            /\ UNCHANGED <<resp, pendingDeletes>>
    /\ UNCHANGED <<sigVars, pollVars, relayVars, iceVars, xferVars, connVars, sessions, now>>

\* PATCH: ref.update(updates), which rejects when the document is gone, and the
\* response.
PATCHupdate(p) ==
    /\ req[p].op = "PATCH update"
    /\ IF ~sessions[req[p].code].exists
       THEN /\ Returns(p, Response("PATCH", 500, req[p].code, NoJson))
            /\ UNCHANGED sessions
       ELSE /\ sessions' = [sessions EXCEPT ![req[p].code] = Updated(@, req[p].patch)]
            /\ Returns(p, Response("PATCH", 200, req[p].code, NoJson))
    /\ UNCHANGED <<sigVars, pollVars, relayVars, iceVars, xferVars, connVars, now, pendingDeletes>>

\* Mutant of DeleteStatus: deleting what is not there is an error.
DeleteStatusStrict(exists) == IF exists THEN 200 ELSE 404

\* DELETE answers 200 whether the document was there or not.
DeleteStatus(exists) == 200

\* DELETE
DELETE(p, code) ==
    /\ req[p].op = "idle"
    /\ sessions' = [sessions EXCEPT ![code] = NoSession]
    /\ Returns(p, Response("DELETE", DeleteStatus(sessions[code].exists), code, NoJson))
    /\ UNCHANGED <<sigVars, pollVars, relayVars, iceVars, xferVars, connVars, now, pendingDeletes>>

\* A "ref.delete().catch(() => {})" of GET or PATCH is applied.
DeleteApplied(code) ==
    /\ pendingDeletes[code] > 0
    /\ pendingDeletes' = [pendingDeletes EXCEPT ![code] = @ - 1]
    /\ sessions' = [sessions EXCEPT ![code] = NoSession]
    /\ UNCHANGED <<sigVars, pollVars, relayVars, iceVars, xferVars, connVars, now, req, resp>>

\* Time passes.
Tick ==
    /\ now < MaxTicks * TickMs
    /\ now' = now + TickMs
    /\ UNCHANGED <<sigVars, pollVars, relayVars, iceVars, xferVars, connVars, sessions, req, resp, pendingDeletes>>

RegistryNext ==
    \/ \E p \in Procs, body \in CreateBodies, r \in Randoms : POST(p, body, r)
    \/ \E p \in Procs, r \in Randoms : POSTretry(p, r)
    \/ \E p \in Procs : POSTset(p)
    \/ \E p \in Procs, code \in Codes : GET(p, code)
    \/ \E p \in Procs, code \in Codes : \E body \in PatchBodies(p) : PATCH(p, code, body)
    \/ \E p \in Procs : PATCHupdate(p)
    \/ \E p \in Procs, code \in Codes : DELETE(p, code)
    \/ \E code \in Codes : DeleteApplied(code)
    \/ Tick

\* What the collection may hold under a code when the two requests arrive:
\* nothing, a session just created, and one that has been updated since.
InitialSessions ==
    LET created == NewSession([fileName |-> "b.txt", fileSize |-> 2, fileType |-> ""], TTL)
    IN  {NoSession,
         created,
         [created EXCEPT !.senderOffer = "offer", !.senderIceCandidates = <<StoredCandidate>>]}

\* No request has arrived.
IdleRegVars ==
    /\ sessions = [code \in Codes |-> NoSession]
    /\ now = 0
    /\ req = [p \in Procs |-> Idle]
    /\ resp = [p \in Procs |-> Response("none", 0, 0, NoJson)]
    /\ pendingDeletes = [code \in Codes |-> 0]

InitRegVars ==
    /\ sessions \in [Codes -> InitialSessions]
    /\ now = 0
    /\ req = [p \in Procs |-> Idle]
    /\ resp = [p \in Procs |-> Response("none", 0, 0, NoJson)]
    /\ pendingDeletes = [code \in Codes |-> 0]

\* ------------- connection attempts of components/P2PFileShare.tsx: one client
\* that starts one session, as sender (handleSendFile, connectToRemotePeer) or
\* as receiver (handleReceiveFile).  A step is one handler, timer or callback
\* run to its end; "await cleanup()" and what follows it run in the same step.
\* The PeerJS peer delivers no event of a connection once the peer is
\* destroyed; the timers the component itself has set fire all the same.

\* The calls of peer.connect and the incoming connections the client sees.
MaxConnections == 4

PEER_MAX_CONNECT_ATTEMPTS == 4

\* The reasons finalizeFailure is called with.
Reasons ==
    {"timeout", "error", "closed", "ice-failed", "ice-disconnected", "ice-closed", "no-ice"}

\* "conn.close()" precedes finalizeFailure for these; for the ice-* reasons
\* handleIceStateBeforeOpen does not close the connection.  An ICE transport
\* that is failed or closed does not come back; a disconnected one may.
ClosedOnFailure(reason) == reason # "ice-disconnected"

NoError == "null"
NoRouteMessage == "No network routes were discovered. Please add a reachable TURN server or loosen firewall restrictions and try again."
GenericMessage == "Unable to connect to the receiver. Please try again."
WaitTimeoutMessage == "Timed out waiting for the sender to connect"
SessionCode == "123456"

\* Mutant of FailureMessage: every failure is reported as a missing route.
FailureMessageAlwaysNoRoute(reason) == NoRouteMessage

\* "reason === 'no-ice' ? 'No network routes ...' : 'Unable to connect ...'"
FailureMessage(reason) == IF reason = "no-ice" THEN NoRouteMessage ELSE GenericMessage

\* The render whose handleSendFile or handleReceiveFile the user started: the
\* callbacks made by that call see its cleanup, and through it the code and
\* mode of that render, the ones of the idle component.
StartRender == [code |-> "", mode |-> "idle"]

xferRest == <<component, transport, fileSize, connOpen, offset, scheduled, senderStatus,
              bufferedAmount, channel, chunksRef, downloads, receiverStatus, chunksSent,
              metaSent, stalled, ignoredCalls>>

\* conn.close() of connection i, or nothing for null.
ConnClosed(cs, i) == IF i = 0 THEN cs ELSE [cs EXCEPT ![i].state = "closed"]

\* The runs of cleanup() that are counted.
MaxCleanups == 2

\* Mutant of abortConnectAttempts: a run on a context already aborted clears
\* the mark.
abortConnectAttemptsToggles(ref, flag) == IF ref = "ctx" THEN ~flag ELSE flag

\* abortConnectAttempts: the new value of ctx.aborted.
abortConnectAttempts(ref, flag) == flag \/ ref = "ctx"

\* cleanup() of a render that saw the given code and mode; cs and current are
\* conns and connectionRef.current as the caller has left them.
cleanup(cs, current, seenCode, seenMode) ==
    /\ aborted' = abortConnectAttempts(connectAttemptRef, aborted)
    /\ receiverConnectTimeoutRef' = FALSE
    /\ subscribed' = FALSE
    /\ conns' = ConnClosed(cs, current)
    /\ connectionRef' = 0
    /\ peerRef' = IF peerRef = "null" THEN "null" ELSE "destroyed"
    /\ deletes' = IF seenCode # "" /\ seenMode = "sending" THEN deletes + 1 ELSE deletes
                  \* "await fetch(`/api/p2p/${code}`, { method: 'DELETE' })"
    /\ sendingRef' = FALSE
    /\ totalSizeRef' = 0
    /\ receivedSizeRef' = 0
    /\ cleanups' = IF cleanups < MaxCleanups THEN cleanups + 1 ELSE cleanups

\* resetToIdle(), followed by setError(message) where the caller does that.
resetToIdle(message) ==
    /\ mode' = "idle"
    /\ codeState' = ""
    /\ error' = message
    /\ connectAttemptRef' = "null"

\* handleSendFile: the session is created, or the request fails.
handleSendFile(ok) ==
    /\ ctxRole = "none"
    /\ ctxRole' = "sender"
    /\ IF ok
       THEN /\ mode' = "sending"
            /\ codeState' = SessionCode
            /\ error' = NoError
            /\ peerRef' = "created"
       ELSE /\ error' = "Failed to create session"
            /\ UNCHANGED <<mode, codeState, peerRef>>
    /\ UNCHANGED <<sigVars, pollVars, relayVars, iceVars, xferVars, regVars, connectAttemptRef, aborted, subscribed,
                   connectionRef, conns, retries, receiverConnectTimeoutRef, doneTimer, deletes, cleanups>>

\* handleReceiveFile: the session is fetched, or the request fails.
handleReceiveFile(ok) ==
    /\ ctxRole = "none"
    /\ ctxRole' = "receiver"
    /\ IF ok
       THEN /\ mode' = "receiving"
            /\ codeState' = SessionCode
            /\ error' = NoError
            /\ totalSizeRef' = 1
            /\ connectAttemptRef' = "ctx"
            /\ peerRef' = "created"
       ELSE /\ error' = "Session not found"
            /\ mode' = "idle"
            /\ codeState' = ""
            /\ UNCHANGED <<totalSizeRef, connectAttemptRef, peerRef>>
    /\ UNCHANGED <<sigVars, pollVars, relayVars, iceVars, regVars, xferRest, sendingRef, receivedSizeRef, aborted,
                   subscribed, connectionRef, conns, retries, receiverConnectTimeoutRef,
                   doneTimer, deletes, cleanups>>

\* peer.on('open')
peerOnOpen ==
    /\ peerRef = "created"
    /\ peerRef' = "open"
    /\ IF ctxRole = "sender"
       THEN /\ connectAttemptRef' = "ctx"
            /\ subscribed' = TRUE
            /\ UNCHANGED receiverConnectTimeoutRef
       ELSE /\ receiverConnectTimeoutRef' = TRUE
            /\ UNCHANGED <<connectAttemptRef, subscribed>>
    /\ UNCHANGED <<sigVars, pollVars, relayVars, iceVars, xferVars, regVars, mode, codeState, error, ctxRole, aborted,
                   connectionRef, conns, retries, doneTimer, deletes, cleanups>>

\* Mutant of AbortedBeforeStart: connectToRemotePeer starts the attempt whatever
\* has happened to the context.
AbortedBeforeStartNever(flag, peer) == FALSE

\* "ctx.aborted || peer.destroyed"
AbortedBeforeStart(flag, peer) == flag \/ peer = "destroyed"

\* connectToRemotePeer(..., attempt), cs being conns as the caller has left it.
connectToRemotePeer(cs, current, attempt) ==
    IF AbortedBeforeStart(aborted, peerRef)
    THEN /\ conns' = cs
         /\ connectionRef' = current
    ELSE /\ conns' = Append(cs, [attempt |-> attempt, state |-> "awaiting"])
         /\ connectionRef' = Len(cs) + 1

\* "sessionData?.receiverPeerId && !connectionRef.current && !connectCtx.aborted",
\* for a snapshot that carries the receiver's peer id.
SnapshotConnects(current, flag) == current = 0 /\ ~flag

\* The onSnapshot callback, notified of a session that names the receiver's peer.
onSnapshot ==
    /\ subscribed
    /\ Len(conns) < MaxConnections
    /\ IF SnapshotConnects(connectionRef, aborted)
       THEN connectToRemotePeer(conns, connectionRef, 1)
       ELSE UNCHANGED <<conns, connectionRef>>
    /\ UNCHANGED <<sigVars, pollVars, relayVars, iceVars, xferVars, regVars, mode, codeState, error, ctxRole, peerRef,
                   connectAttemptRef, aborted, subscribed, retries, receiverConnectTimeoutRef,
                   doneTimer, deletes, cleanups>>

\* "attempt < PEER_MAX_CONNECT_ATTEMPTS"
MayRetry(attempt) == attempt < PEER_MAX_CONNECT_ATTEMPTS

\* Attempt i fails before its connection has opened (handlePreError,
\* handlePreClose, the connect timeout, handleIceStateBeforeOpen, the no-ice
\* check of inspectPeerConnection): awaitingOpen is cleared and
\* finalizeFailure(reason) runs.
attemptFails(i, reason) ==
    /\ i \in 1..Len(conns)
    /\ ctxRole = "sender"
    /\ conns[i].state = "awaiting"
    /\ reason = "timeout" \/ peerRef = "open"
    /\ LET cs == [conns EXCEPT ![i].state = IF ClosedOnFailure(reason) \/ aborted
                                            THEN "closed" ELSE "failed"]
           current == IF connectionRef = i THEN 0 ELSE connectionRef
       IN  IF aborted
           THEN /\ conns' = cs
                /\ connectionRef' = current
                /\ UNCHANGED <<mode, codeState, error, peerRef, connectAttemptRef, aborted,
                               subscribed, retries, receiverConnectTimeoutRef, deletes, cleanups,
                               sendingRef, totalSizeRef, receivedSizeRef>>
           ELSE IF MayRetry(conns[i].attempt)
           THEN /\ conns' = cs
                /\ connectionRef' = current
                /\ retries' = Append(retries, conns[i].attempt + 1)
                /\ UNCHANGED <<mode, codeState, error, peerRef, connectAttemptRef, aborted,
                               subscribed, receiverConnectTimeoutRef, deletes, cleanups,
                               sendingRef, totalSizeRef, receivedSizeRef>>
           ELSE /\ cleanup(cs, current, StartRender.code, StartRender.mode)
                /\ resetToIdle(FailureMessage(reason))
                /\ UNCHANGED retries
    /\ UNCHANGED <<sigVars, pollVars, relayVars, iceVars, regVars, xferRest, ctxRole, doneTimer>>

\* The timer of "setTimeout(() => connectToRemotePeer(..., attempt + 1),
\* PEER_CONNECT_RETRY_DELAY)" fires.
retryTimer ==
    /\ retries # <<>>
    /\ Len(conns) < MaxConnections
    /\ retries' = Tail(retries)
    /\ connectToRemotePeer(conns, connectionRef, Head(retries))
    /\ UNCHANGED <<sigVars, pollVars, relayVars, iceVars, xferVars, regVars, mode, codeState, error, ctxRole, peerRef,
                   connectAttemptRef, aborted, subscribed, receiverConnectTimeoutRef,
                   doneTimer, deletes, cleanups>>

\* The 'open' event of connection i: conn.once('open') of the sender,
\* conn.on('open') of the receiver.
connOnOpen(i) ==
    /\ i \in 1..Len(conns)
    /\ conns[i].state \in {"awaiting", "failed"}
    /\ peerRef = "open"
    /\ IF ctxRole = "sender" /\ aborted
       THEN /\ conns' = ConnClosed(conns, i)
            /\ UNCHANGED <<connectAttemptRef, subscribed, connectionRef, sendingRef,
                           receiverConnectTimeoutRef>>
       ELSE IF ctxRole = "sender"
       THEN /\ conns' = [conns EXCEPT ![i].state = "open"]
            /\ connectAttemptRef' = "null"
            /\ subscribed' = FALSE
            /\ connectionRef' = i
            /\ sendingRef' = TRUE           \* sendFileInChunks(conn, fileToSend)
            /\ UNCHANGED receiverConnectTimeoutRef
       ELSE /\ conns' = [conns EXCEPT ![i].state = "open"]
            /\ receiverConnectTimeoutRef' = FALSE
            /\ connectAttemptRef' = "null"
            /\ UNCHANGED <<subscribed, connectionRef, sendingRef>>
    /\ UNCHANGED <<sigVars, pollVars, relayVars, iceVars, regVars, xferRest, totalSizeRef, receivedSizeRef, mode,
                   codeState, error, ctxRole, peerRef, aborted, retries, doneTimer, deletes, cleanups>>

\* The 'error' event of connection i once its handler is installed (at 'open'
\* on the sender, at 'connection' on the receiver): setError, cleanup().
connOnError(i) ==
    /\ i \in 1..Len(conns)
    /\ peerRef = "open"
    /\ \/ conns[i].state = "open"
       \/ ctxRole = "receiver" /\ conns[i].state = "awaiting"
    /\ error' = "Connection error"
    /\ cleanup(conns, connectionRef, StartRender.code, StartRender.mode)
    /\ UNCHANGED <<sigVars, pollVars, relayVars, iceVars, regVars, xferRest, mode, codeState, ctxRole,
                   connectAttemptRef, retries, doneTimer>>

\* The 'close' event of connection i once its handler is installed.
connOnClose(i) ==
    /\ i \in 1..Len(conns)
    /\ peerRef = "open"
    /\ \/ conns[i].state = "open"
       \/ ctxRole = "receiver" /\ conns[i].state = "awaiting"
    /\ IF (ctxRole = "sender" /\ sendingRef) \/ (ctxRole = "receiver" /\ receivedSizeRef < totalSizeRef)
       THEN /\ error' = IF ctxRole = "sender"
                        THEN "Connection closed before transfer completed"
                        ELSE "Connection closed before the transfer completed"
            /\ cleanup(ConnClosed(conns, i), connectionRef, StartRender.code, StartRender.mode)
       ELSE /\ conns' = ConnClosed(conns, i)
            /\ UNCHANGED <<error, aborted, receiverConnectTimeoutRef, subscribed, connectionRef,
                           peerRef, deletes, cleanups, sendingRef, totalSizeRef, receivedSizeRef>>
    /\ UNCHANGED <<sigVars, pollVars, relayVars, iceVars, regVars, xferRest, mode, codeState, ctxRole,
                   connectAttemptRef, retries, doneTimer>>

\* The transfer over an open connection runs to its end: sendNextChunk finds
\* the whole file sent, or handleIncomingChunk calls completeFileReceive; both
\* set the timer of "setTimeout(() => { void cleanup(); resetToIdle(); }, 3000)".
transferCompletes ==
    /\ \E i \in 1..Len(conns) : conns[i].state = "open"
    /\ ~doneTimer
    /\ IF ctxRole = "sender"
       THEN /\ sendingRef
            /\ sendingRef' = FALSE
            /\ UNCHANGED receivedSizeRef
       ELSE /\ receivedSizeRef < totalSizeRef
            /\ receivedSizeRef' = totalSizeRef
            /\ UNCHANGED sendingRef
    /\ doneTimer' = TRUE
    /\ UNCHANGED <<sigVars, pollVars, relayVars, iceVars, regVars, xferRest, totalSizeRef, mode, codeState, error,
                   ctxRole, peerRef, connectAttemptRef, aborted, subscribed, connectionRef, conns,
                   retries, receiverConnectTimeoutRef, deletes, cleanups>>

\* The timer set on completion fires.
completionTimer ==
    /\ doneTimer
    /\ doneTimer' = FALSE
    /\ cleanup(conns, connectionRef, StartRender.code, StartRender.mode)
    /\ resetToIdle(NoError)
    /\ UNCHANGED <<sigVars, pollVars, relayVars, iceVars, regVars, xferRest, ctxRole, retries>>

\* handleCancel, bound to the button of the current render.
handleCancel ==
    /\ mode # "idle"
    /\ cleanup(conns, connectionRef, codeState, mode)
    /\ resetToIdle(NoError)
    /\ UNCHANGED <<sigVars, pollVars, relayVars, iceVars, regVars, xferRest, ctxRole, retries, doneTimer>>

\* peer.on('error')
peerOnError ==
    /\ peerRef \in {"created", "open"}
    /\ error' = "Peer error"
    /\ cleanup(conns, connectionRef, StartRender.code, StartRender.mode)
    /\ UNCHANGED <<sigVars, pollVars, relayVars, iceVars, regVars, xferRest, mode, codeState, ctxRole,
                   connectAttemptRef, retries, doneTimer>>

\* The receiver's timer of 20 s after its peer has opened.
receiverWaitTimeout ==
    /\ receiverConnectTimeoutRef
    /\ IF aborted \/ connectionRef # 0
       THEN /\ receiverConnectTimeoutRef' = FALSE
            /\ UNCHANGED <<aborted, subscribed, conns, connectionRef, peerRef, deletes, cleanups,
                           sendingRef, totalSizeRef, receivedSizeRef, mode, codeState, error,
                           connectAttemptRef>>
       ELSE /\ cleanup(conns, connectionRef, StartRender.code, StartRender.mode)
            /\ resetToIdle(WaitTimeoutMessage)
    /\ UNCHANGED <<sigVars, pollVars, relayVars, iceVars, regVars, xferRest, ctxRole, retries, doneTimer>>

\* peer.on('connection') of the receiver.
peerOnConnection ==
    /\ ctxRole = "receiver"
    /\ peerRef = "open"
    /\ Len(conns) < MaxConnections
    /\ IF aborted
       THEN /\ conns' = Append(conns, [attempt |-> 0, state |-> "closed"])
            /\ UNCHANGED <<receiverConnectTimeoutRef, connectionRef>>
       ELSE /\ conns' = Append(conns, [attempt |-> 0, state |-> "awaiting"])
            /\ receiverConnectTimeoutRef' = FALSE
            /\ connectionRef' = Len(conns) + 1
    /\ UNCHANGED <<sigVars, pollVars, relayVars, iceVars, xferVars, regVars, mode, codeState, error, ctxRole, peerRef,
                   connectAttemptRef, aborted, subscribed, retries, doneTimer, deletes, cleanups>>

ConnectNext ==
    \/ \E ok \in BOOLEAN : handleSendFile(ok)
    \/ \E ok \in BOOLEAN : handleReceiveFile(ok)
    \/ peerOnOpen
    \/ onSnapshot
    \/ \E i \in 1..MaxConnections, reason \in Reasons : attemptFails(i, reason)
    \/ retryTimer
    \/ \E i \in 1..MaxConnections : connOnOpen(i)
    \/ \E i \in 1..MaxConnections : connOnError(i)
    \/ \E i \in 1..MaxConnections : connOnClose(i)
    \/ transferCompletes
    \/ completionTimer
    \/ handleCancel
    \/ peerOnError
    \/ receiverWaitTimeout
    \/ peerOnConnection

\* The component has been mounted and nothing has been started.
IdleConnVars ==
    /\ mode = "idle"
    /\ codeState = ""
    /\ error = NoError
    /\ ctxRole = "none"
    /\ peerRef = "null"
    /\ connectAttemptRef = "null"
    /\ aborted = FALSE
    /\ subscribed = FALSE
    /\ connectionRef = 0
    /\ conns = <<>>
    /\ retries = <<>>
    /\ receiverConnectTimeoutRef = FALSE
    /\ doneTimer = FALSE
    /\ deletes = 0
    /\ cleanups = 0

\* ------------------- polling variant of the client: session polled every second
\* The ticks of the interval and the candidates of the remote peer that are
\* modelled.
MaxPolls == 3
MaxRemoteCandidates == 2

\* "const MAX_POLL_TICKS = 60"
MAX_POLL_TICKS == 60

OfferSignal == [type |-> "offer", index |-> 0]
AnswerSignal == [type |-> "answer", index |-> 0]
CandidateSignal(i) == [type |-> "candidate", index |-> i]

\* "list.slice(from)" of a list of count entries, each passed to peer.signal.
SliceFrom(from, count) == [k \in 1..(count - from) |-> CandidateSignal(from + k)]

\* "data.receiverAnswer && !answerReceived && !peer.destroyed"
AnswerIsNew(has, received, destroyed) == has /\ ~received /\ ~destroyed

\* The remote peer's PATCH with a candidate is applied to the session.
remoteAddsCandidate ==
    /\ ~sessionGone
    /\ remoteCandidates < MaxRemoteCandidates
    /\ remoteCandidates' = remoteCandidates + 1
    /\ UNCHANGED <<sigVars, relayVars, iceVars, xferVars, regVars, connVars, pollRole, pollPhase,
                   remoteAnswer, sessionGone, responses, pollTick, polls, lastIceCount,
                   answerReceived, signals, peerDestroyed>>

\* The receiver's PATCH with its answer is applied to the session.
remoteSendsAnswer ==
    /\ ~sessionGone
    /\ pollRole = "sender"
    /\ ~remoteAnswer
    /\ remoteAnswer' = TRUE
    /\ UNCHANGED <<sigVars, relayVars, iceVars, xferVars, regVars, connVars, pollRole, pollPhase,
                   remoteCandidates, sessionGone, responses, pollTick, polls, lastIceCount,
                   answerReceived, signals, peerDestroyed>>

\* The session expires or is deleted.
sessionExpires ==
    /\ ~sessionGone
    /\ sessionGone' = TRUE
    /\ UNCHANGED <<sigVars, relayVars, iceVars, xferVars, regVars, connVars, pollRole, pollPhase,
                   remoteCandidates, remoteAnswer, responses, pollTick, polls, lastIceCount,
                   answerReceived, signals, peerDestroyed>>

\* The sender, its session created, calls startPollingForAnswer; the receiver's
\* handleReceiveFile, its session fetched, signals the offer and the sender's
\* candidates of that fetch and calls startPollingForSenderCandidates.
startPolling ==
    /\ pollPhase = "idle"
    /\ IF pollRole = "receiver" /\ sessionGone
       THEN /\ pollPhase' = "stopped"
            /\ UNCHANGED signals
       ELSE /\ pollPhase' = "polling"
            /\ signals' = IF pollRole = "receiver"
                          THEN <<OfferSignal>> \o SliceFrom(0, remoteCandidates)
                          ELSE signals
    /\ lastIceCount' = 0
    /\ answerReceived' = FALSE
    /\ UNCHANGED <<sigVars, relayVars, iceVars, xferVars, regVars, connVars, pollRole, remoteCandidates,
                   remoteAnswer, sessionGone, responses, pollTick, polls, peerDestroyed>>

\* The interval fires: the timeout after MAX_POLL_TICKS, or one more fetch of
\* the session, whose response holds the session as it is now.
pollInterval ==
    /\ pollPhase = "polling"
    /\ polls < MaxPolls
    /\ polls' = polls + 1
    /\ pollTick' = pollTick + 1
    /\ IF pollTick' > MAX_POLL_TICKS
       THEN /\ pollPhase' = "stopped"
            /\ peerDestroyed' = TRUE
            /\ UNCHANGED responses
       ELSE /\ responses' = responses \cup
                   {[id |-> polls', ok |-> ~sessionGone, answer |-> remoteAnswer,
                     count |-> remoteCandidates]}
            /\ UNCHANGED <<pollPhase, peerDestroyed>>
    /\ UNCHANGED <<sigVars, relayVars, iceVars, xferVars, regVars, connVars, pollRole, remoteCandidates,
                   remoteAnswer, sessionGone, lastIceCount, answerReceived, signals>>

\* A fetch of the interval resolves with response r: the rest of the callback.
pollResponse(r) ==
    /\ r \in responses
    /\ responses' = responses \ {r}
    /\ IF ~r.ok
       THEN /\ pollPhase' = "stopped"
            /\ UNCHANGED <<lastIceCount, answerReceived, signals>>
       ELSE LET applyAnswer == /\ pollRole = "sender"
                               /\ AnswerIsNew(r.answer, answerReceived, peerDestroyed)
                fresh == r.count > lastIceCount
            IN  /\ answerReceived' = (answerReceived \/ applyAnswer)
                /\ lastIceCount' = IF fresh THEN r.count ELSE lastIceCount
                /\ signals' = signals
                                \o (IF applyAnswer THEN <<AnswerSignal>> ELSE <<>>)
                                \o (IF fresh /\ ~peerDestroyed
                                    THEN SliceFrom(lastIceCount, r.count) ELSE <<>>)
                /\ UNCHANGED pollPhase
    /\ UNCHANGED <<sigVars, relayVars, iceVars, xferVars, regVars, connVars, pollRole, remoteCandidates,
                   remoteAnswer, sessionGone, pollTick, polls, peerDestroyed>>

\* peer.on('connect'): the interval is cleared.
peerOnConnect ==
    /\ pollPhase = "polling"
    /\ ~peerDestroyed
    /\ pollPhase' = "stopped"
    /\ UNCHANGED <<sigVars, relayVars, iceVars, xferVars, regVars, connVars, pollRole, remoteCandidates,
                   remoteAnswer, sessionGone, responses, pollTick, polls, lastIceCount,
                   answerReceived, signals, peerDestroyed>>

PollNext ==
    \/ remoteAddsCandidate
    \/ remoteSendsAnswer
    \/ sessionExpires
    \/ startPolling
    \/ pollInterval
    \/ \E r \in responses : pollResponse(r)
    \/ peerOnConnect

\* Nothing of the polling variant has started.
IdlePollVars ==
    /\ pollRole = "sender"
    /\ pollPhase = "idle"
    /\ remoteCandidates = 0
    /\ remoteAnswer = FALSE
    /\ sessionGone = FALSE
    /\ responses = {}
    /\ pollTick = 0
    /\ polls = 0
    /\ lastIceCount = 0
    /\ answerReceived = FALSE
    /\ signals = <<>>
    /\ peerDestroyed = FALSE

\* A client about to start polling; the interval is new, or has run for all but
\* two of its ticks without the session changing.
InitPollVars ==
    /\ pollRole \in Roles
    /\ pollPhase = "idle"
    /\ remoteCandidates = 0
    /\ remoteAnswer = FALSE
    /\ sessionGone = FALSE
    /\ responses = {}
    /\ pollTick \in {0, MAX_POLL_TICKS - 2}
    /\ polls = 0
    /\ lastIceCount = 0
    /\ answerReceived = FALSE
    /\ signals = <<>>
    /\ peerDestroyed = FALSE

\* ------- signalling: components/P2PFileShareWebRTC.tsx and lib/server/websocket.ts
\* The candidates one client's gathering yields.
MaxSigCandidates == 1

\* A message between a client and the relay; the fields a message does not carry
\* are NoRole and NoValue.
SigMsg(type, role, peerId) == [type |-> type, role |-> role, peerId |-> peerId]

\* No join of the connection has passed the field check.
NoRelayClient == [ws |-> NoRole, role |-> NoRole, peerId |-> NoValue]

\* ws.send on the relay's side; a socket its client has closed takes nothing.
RelaySend(d, to, msg) == IF wsRef[to] = "open" THEN [d EXCEPT ![to] = Append(@, msg)] ELSE d

\* wsRef.current.send, or "if (wsRef.current)" before it.
ClientSend(role, msg) == IF wsRef[role] = "open" THEN [uplink EXCEPT ![role] = Append(@, msg)] ELSE uplink

\* Mutant of CreatesOffer: the offer is made when a sender is announced.
CreatesOfferOnSender(role, joinedRole) == role = "sender" /\ joinedRole = "sender"

\* "if (role === 'sender' && message.role === 'receiver')"
CreatesOffer(role, joinedRole) == role = "sender" /\ joinedRole = "receiver"

\* cleanup of the client; what the socket had received and not delivered is lost,
\* and the relay sees the close after everything the client sent.
sigCleanup(role) ==
    /\ wsRef' = [wsRef EXCEPT ![role] = IF @ = "open" THEN "closed" ELSE @]
    /\ uplink' = IF wsRef[role] = "open"
                 THEN [uplink EXCEPT ![role] = Append(@, SigMsg("close", NoRole, NoValue))]
                 ELSE uplink
    /\ peerConnectionRef' = [peerConnectionRef EXCEPT ![role] = FALSE]
    /\ left' = TRUE

\* handleSendFile / handleReceiveFile reach connectWebSocket, and ws.onopen sends
\* the join.
connectWebSocket(role) ==
    /\ wsRef[role] = "new"
    /\ wsRef' = [wsRef EXCEPT ![role] = "open"]
    /\ uplink' = [uplink EXCEPT ![role] = Append(@, SigMsg("join", role, peerIdRef[role]))]
    /\ UNCHANGED <<relayVars, iceVars, xferVars, regVars, connVars, pollVars, peerIdRef,
                   peerConnectionRef, localDescription, gathering, candidatesSent,
                   candidatesHandled, downlink, relayRoom, relayClient, offersCreated,
                   offersHandled, answersHandled, left>>

\* handleJoin of the relay, for a join that carries roomCode, role and peerId.
relayJoin(conn, msg) ==
    LET client == [ws |-> conn, role |-> msg.role, peerId |-> msg.peerId]
    IN  /\ relayClient' = [relayClient EXCEPT ![conn] = client]
        /\ IF RoomIsFull(relayRoom) \/ ExistingRole(relayRoom, msg.role) # 0
           THEN /\ downlink' = RelaySend(downlink, conn, SigMsg("error", NoRole, NoValue))
                /\ UNCHANGED relayRoom
           ELSE LET pushed == Append(relayRoom, client)
                    other == OtherPeer(pushed, msg.peerId)
                    joined == RelaySend(downlink, conn, SigMsg("joined", msg.role, NoValue))
                IN  /\ relayRoom' = pushed
                    /\ downlink' =
                         IF other # 0
                         THEN RelaySend(RelaySend(joined, pushed[other].ws,
                                              SigMsg("peer-joined", msg.role, msg.peerId)),
                                      conn,
                                      SigMsg("peer-joined", pushed[other].role,
                                             pushed[other].peerId))
                         ELSE joined

\* handleOffer, handleAnswer and handleIceCandidate of the relay: the message goes
\* to the room's member of the target role, when there is one.
relayForward(type, targetRole) ==
    LET target == ExistingRole(relayRoom, targetRole)
    IN  /\ downlink' = IF target # 0
                       THEN RelaySend(downlink, relayRoom[target].ws, SigMsg(type, NoRole, NoValue))
                       ELSE downlink
        /\ UNCHANGED <<relayRoom, relayClient>>

\* ws.on('close') of the relay: handleLeave(currentClient).
relayLeave(conn) ==
    LET client == relayClient[conn]
        index == IndexOfClient(relayRoom, client)
        spliced == IF index # 0 THEN Splice(relayRoom, index) ELSE relayRoom
        other == OtherPeer(spliced, client.peerId)
    IN  /\ relayClient' = [relayClient EXCEPT ![conn] = NoRelayClient]
        /\ IF client = NoRelayClient
           THEN UNCHANGED <<relayRoom, downlink>>
           ELSE /\ relayRoom' = spliced
                /\ downlink' = IF other # 0
                               THEN RelaySend(downlink, spliced[other].ws,
                                            SigMsg("peer-left", client.role, NoValue))
                               ELSE downlink

\* The relay handles the oldest event of a connection: ws.on('message') or
\* ws.on('close').
relayOnMessage(conn) ==
    /\ uplink[conn] # <<>>
    /\ uplink' = [uplink EXCEPT ![conn] = Tail(@)]
    /\ LET msg == Head(uplink[conn])
       IN  CASE msg.type = "join" -> relayJoin(conn, msg)
             [] msg.type = "offer" -> relayForward("offer", "receiver")
             [] msg.type = "answer" -> relayForward("answer", "sender")
             [] msg.type = "ice-candidate" ->
                  relayForward("ice-candidate",
                               IF msg.role = "sender" THEN "receiver" ELSE "sender")
             [] OTHER -> relayLeave(conn)
    /\ UNCHANGED <<relayVars, iceVars, xferVars, regVars, connVars, pollVars, peerIdRef, wsRef,
                   peerConnectionRef, localDescription, gathering, candidatesSent,
                   candidatesHandled, offersCreated, offersHandled, answersHandled, left>>

\* ws.onmessage of a client, up to the wait for ICE gathering of createOffer and
\* handleOffer.
wsOnMessage(role) ==
    /\ wsRef[role] = "open"
    /\ downlink[role] # <<>>
    /\ LET msg == Head(downlink[role])
           rest == [downlink EXCEPT ![role] = Tail(@)]
           ready == peerConnectionRef[role]
       IN  CASE msg.type = "joined" ->
                  /\ peerConnectionRef' = [peerConnectionRef EXCEPT ![role] = TRUE]
                  /\ downlink' = rest
                  /\ UNCHANGED <<wsRef, uplink, localDescription, gathering, candidatesHandled,
                                 offersCreated, offersHandled, answersHandled, left>>
             [] msg.type = "peer-joined" ->
                  /\ downlink' = rest
                  /\ IF CreatesOffer(role, msg.role) /\ ready
                     THEN /\ offersCreated' = offersCreated + 1
                          /\ localDescription' = [localDescription EXCEPT ![role] = "offer"]
                          /\ gathering' = [gathering EXCEPT ![role] = "offer"]
                     ELSE UNCHANGED <<offersCreated, localDescription, gathering>>
                  /\ UNCHANGED <<wsRef, uplink, peerConnectionRef, candidatesHandled,
                                 offersHandled, answersHandled, left>>
             [] msg.type = "offer" ->
                  /\ downlink' = rest
                  /\ IF role = "receiver" /\ ready
                     THEN /\ offersHandled' = offersHandled + 1
                          /\ localDescription' = [localDescription EXCEPT ![role] = "answer"]
                          /\ gathering' = [gathering EXCEPT ![role] = "answer"]
                     ELSE UNCHANGED <<offersHandled, localDescription, gathering>>
                  /\ UNCHANGED <<wsRef, uplink, peerConnectionRef, candidatesHandled,
                                 offersCreated, answersHandled, left>>
             [] msg.type = "answer" ->
                  /\ downlink' = rest
                  /\ answersHandled' = IF role = "sender" /\ ready
                                       THEN answersHandled + 1 ELSE answersHandled
                  /\ UNCHANGED <<wsRef, uplink, peerConnectionRef, localDescription, gathering,
                                 candidatesHandled, offersCreated, offersHandled, left>>
             [] msg.type = "ice-candidate" ->
                  /\ downlink' = rest
                  /\ candidatesHandled' = [candidatesHandled EXCEPT ![role] = @ + 1]
                  /\ UNCHANGED <<wsRef, uplink, peerConnectionRef, localDescription, gathering,
                                 offersCreated, offersHandled, answersHandled, left>>
             [] OTHER ->
                  \* 'peer-left', and 'error' through the caller's catch: cleanup()
                  /\ sigCleanup(role)
                  /\ downlink' = [downlink EXCEPT ![role] = <<>>]
                  /\ UNCHANGED <<localDescription, gathering, candidatesHandled,
                                 offersCreated, offersHandled, answersHandled>>
    /\ UNCHANGED <<relayVars, iceVars, xferVars, regVars, connVars, pollVars, peerIdRef,
                   candidatesSent, relayRoom, relayClient>>

\* ICE gathering completes, or the 3 s timer of the wait fires: createOffer or
\* handleOffer resumes and sends pc.localDescription.
gatheringDone(role) ==
    /\ gathering[role] # "none"
    /\ gathering' = [gathering EXCEPT ![role] = "none"]
    /\ uplink' = ClientSend(role, SigMsg(gathering[role], NoRole, NoValue))
    /\ UNCHANGED <<relayVars, iceVars, xferVars, regVars, connVars, pollVars, peerIdRef, wsRef,
                   peerConnectionRef, localDescription, candidatesSent, candidatesHandled,
                   downlink, relayRoom, relayClient, offersCreated, offersHandled,
                   answersHandled, left>>

\* pc.onicecandidate with a candidate, after setLocalDescription.
onicecandidate(role) ==
    /\ peerConnectionRef[role]
    /\ localDescription[role] # "null"
    /\ candidatesSent[role] < MaxSigCandidates
    /\ candidatesSent' = [candidatesSent EXCEPT ![role] = @ + 1]
    /\ uplink' = ClientSend(role, SigMsg("ice-candidate", role, NoValue))
    /\ UNCHANGED <<relayVars, iceVars, xferVars, regVars, connVars, pollVars, peerIdRef, wsRef,
                   peerConnectionRef, localDescription, gathering, candidatesHandled,
                   downlink, relayRoom, relayClient, offersCreated, offersHandled,
                   answersHandled, left>>

\* handleCancel of a client whose socket is open.
sigHandleCancel(role) ==
    /\ wsRef[role] = "open"
    /\ sigCleanup(role)
    /\ downlink' = [downlink EXCEPT ![role] = <<>>]
    /\ UNCHANGED <<relayVars, iceVars, xferVars, regVars, connVars, pollVars, peerIdRef,
                   localDescription, gathering, candidatesSent, candidatesHandled, relayRoom,
                   relayClient, offersCreated, offersHandled, answersHandled>>

\* What the event loops of the relay and of the clients do by themselves.
SigStep ==
    \/ \E conn \in Roles : relayOnMessage(conn)
    \/ \E role \in Roles : wsOnMessage(role)
    \/ \E role \in Roles : gatheringDone(role)

SigNext ==
    \/ \E role \in Roles : connectWebSocket(role)
    \/ \E role \in Roles : onicecandidate(role)
    \/ \E role \in Roles : sigHandleCancel(role)
    \/ SigStep

\* No client has connected.
IdleSigVars ==
    /\ peerIdRef = [role \in Roles |-> 1]
    /\ wsRef = [role \in Roles |-> "new"]
    /\ peerConnectionRef = [role \in Roles |-> FALSE]
    /\ localDescription = [role \in Roles |-> "null"]
    /\ gathering = [role \in Roles |-> "none"]
    /\ candidatesSent = [role \in Roles |-> 0]
    /\ candidatesHandled = [role \in Roles |-> 0]
    /\ uplink = [role \in Roles |-> <<>>]
    /\ downlink = [role \in Roles |-> <<>>]
    /\ relayRoom = <<>>
    /\ relayClient = [role \in Roles |-> NoRelayClient]
    /\ offersCreated = 0
    /\ offersHandled = 0
    /\ answersHandled = 0
    /\ left = FALSE

\* Two mounted clients, each with the peerId its mount effect drew.
InitSigVars ==
    /\ peerIdRef \in [Roles -> PeerIds]
    /\ wsRef = [role \in Roles |-> "new"]
    /\ peerConnectionRef = [role \in Roles |-> FALSE]
    /\ localDescription = [role \in Roles |-> "null"]
    /\ gathering = [role \in Roles |-> "none"]
    /\ candidatesSent = [role \in Roles |-> 0]
    /\ candidatesHandled = [role \in Roles |-> 0]
    /\ uplink = [role \in Roles |-> <<>>]
    /\ downlink = [role \in Roles |-> <<>>]
    /\ relayRoom = <<>>
    /\ relayClient = [role \in Roles |-> NoRelayClient]
    /\ offersCreated = 0
    /\ offersHandled = 0
    /\ answersHandled = 0
    /\ left = FALSE


InitIceVars ==
    /\ roleRef \in Roles
    /\ negotiation = "waiting"
    /\ remoteDescription = FALSE
    /\ pendingIceCandidatesRef = <<>>
    /\ queuedCandidates = <<>>
    /\ addIceCandidateCalls = <<>>
    /\ arrived = 0
    /\ queuedLog = <<>>

\* Before any client connects: no relay event, one fixed client.
IdleIceVars == InitIceVars /\ roleRef = "sender"

InitRelayVars ==
    /\ open = [c \in Conns |-> TRUE]
    /\ rooms = <<>>
    /\ currentClient = [c \in Conns |-> NoClient]
    /\ sent = <<>>
    /\ events = 0

InitInlineVars ==
    /\ inlineRooms = <<>>
    /\ inlineClient = [c \in Conns |-> NoClient]

InitRelay ==
    /\ server = "websocket.ts"
    /\ InitRelayVars
    /\ InitInlineVars
    /\ IdleIceVars
    /\ IdleXferVars
    /\ IdleRegVars
    /\ IdleConnVars
    /\ IdlePollVars
    /\ IdleSigVars

InitInline ==
    /\ server = "inline"
    /\ InitRelayVars
    /\ InitInlineVars
    /\ IdleIceVars
    /\ IdleXferVars
    /\ IdleRegVars
    /\ IdleConnVars
    /\ IdlePollVars
    /\ IdleSigVars

InitIce ==
    /\ server = "websocket.ts"
    /\ InitRelayVars
    /\ InitInlineVars
    /\ InitIceVars
    /\ IdleXferVars
    /\ IdleRegVars
    /\ IdleConnVars
    /\ IdlePollVars
    /\ IdleSigVars

InitTransfer ==
    /\ server = "websocket.ts"
    /\ InitRelayVars
    /\ InitInlineVars
    /\ IdleIceVars
    /\ InitXferVars
    /\ IdleRegVars
    /\ IdleConnVars
    /\ IdlePollVars
    /\ IdleSigVars

InitRegistry ==
    /\ server = "websocket.ts"
    /\ InitRelayVars
    /\ InitInlineVars
    /\ IdleIceVars
    /\ IdleXferVars
    /\ InitRegVars
    /\ IdleConnVars
    /\ IdlePollVars
    /\ IdleSigVars

\* The relay of lib/server/websocket.ts.
SpecRelay == InitRelay /\ [][RelayNext]_vars

\* The relay written inline in the express server.
SpecInline == InitInline /\ [][InlineNext]_vars

\* One client's ICE candidate queue during handleOffer / handleAnswer.
SpecIce == InitIce /\ [][IceNext]_vars

\* One file sent over an open data connection.
SpecTransfer == InitTransfer /\ [][TransferNext]_vars

\* The session registry serving concurrent requests.
SpecRegistry == InitRegistry /\ [][RegistryNext]_vars

\* One client of P2PFileShare from mount on.
InitConnect ==
    /\ server = "websocket.ts"
    /\ InitRelayVars
    /\ InitInlineVars
    /\ IdleIceVars
    /\ IdleXferVars
    /\ IdleRegVars
    /\ IdleConnVars
    /\ IdlePollVars
    /\ IdleSigVars

SpecConnect == InitConnect /\ [][ConnectNext]_vars

\* One client of the polling variant, and the session it polls.
InitPoll ==
    /\ server = "websocket.ts"
    /\ InitRelayVars
    /\ InitInlineVars
    /\ IdleIceVars
    /\ IdleXferVars
    /\ IdleRegVars
    /\ IdleConnVars
    /\ InitPollVars
    /\ IdleSigVars

SpecPoll == InitPoll /\ [][PollNext]_vars

\* Two clients of the WebRTC variant and the room of the relay they join.
InitSignal ==
    /\ server = "websocket.ts"
    /\ InitRelayVars
    /\ InitInlineVars
    /\ IdleIceVars
    /\ IdleXferVars
    /\ IdleRegVars
    /\ IdleConnVars
    /\ IdlePollVars
    /\ InitSigVars

\* The relay handles every event it has received, each client every message
\* delivered to it, and a wait for ICE gathering ends after 3 s at the latest.
\* Nothing obliges a user to connect or to cancel.
SpecSignal ==
    /\ InitSignal
    /\ [][SigNext]_vars
    /\ \A role \in Roles : /\ WF_vars(relayOnMessage(role))
                           /\ WF_vars(wsOnMessage(role))
                           /\ WF_vars(gatheringDone(role))

\* Either relay: the implementation is fixed when the server starts.
SpecRelays == (InitRelay \/ InitInline) /\ [][RelayNext \/ InlineNext]_vars

\* ------------------------------------------------- properties of the relays
\* Connection d is listed in room roomCode of table m with the given role.
Holds(m, roomCode, d, role) ==
    /\ roomCode \in DOMAIN m
    /\ \E k \in 1..Len(m[roomCode]) : m[roomCode][k].ws = d /\ m[roomCode][k].role = role

\* The number of messages of the given type among the sends s that go to d.
CountSends(s, d, type) ==
    Cardinality({i \in 1..Len(s) : s[i].to = d /\ s[i].msg.type = type})

SendSet(s) == {s[i] : i \in 1..Len(s)}

RoomWellFormed(room) ==
    /\ Len(room) <= 2
    /\ \A i, j \in 1..Len(room) : i # j => room[i].role # room[j].role

\* C5: in both relays, after any sequence of join, leave, disconnect and
\* forwarding events, every room holds at most 2 members and no two members of a
\* room have the same role.
C5_RoomCapacity ==
    /\ \A r \in DOMAIN rooms : RoomWellFormed(rooms[r])
    /\ \A r \in DOMAIN inlineRooms : RoomWellFormed(inlineRooms[r])

\* A room of either relay is full and the last join into it was refused.
C5_Witness ==
    /\ \E c \in Conns : sent = <<Send(c, c, ErrorMsg("Room is full"))>>
    /\ \/ \E r \in DOMAIN rooms : Len(rooms[r]) = 2
       \/ \E r \in DOMAIN inlineRooms : Len(inlineRooms[r]) = 2

\* C6: a join (with all three fields) into a room that has 2 members, or that has
\* a member with the requested role, is answered by exactly one message, an error
\* sent to the joining connection, and leaves the room table as it was.
C6_RejectedJoin ==
    [][\A c \in Conns, roomCode \in RoomCodes, role \in Roles, peerId \in PeerIds :
        LET room == RoomOf(rooms, roomCode)
        IN  (/\ handleJoin(c, roomCode, role, peerId)
             /\ \/ Len(room) >= 2
                \/ \E k \in 1..Len(room) : room[k].role = role)
            => /\ Len(sent') = 1
               /\ sent'[1].to = c
               /\ sent'[1].msg.type = "error"
               /\ rooms' = rooms]_vars

\* A join was refused because the role was taken, in a room with one member.
C6_Witness ==
    /\ \E c \in Conns : sent = <<Send(c, c, ErrorMsg("role already exists in this room"))>>
    /\ \E r \in DOMAIN rooms : Len(rooms[r]) = 1

\* C7: when a join succeeds in a room that has one member, the joiner receives
\* joined, the existing member receives peer-joined with the newcomer's role and
\* peerId, and the newcomer receives peer-joined with the existing member's role
\* and peerId, and nothing else is sent; when the room had no member, only joined
\* is sent.
C7_JoinNotifiesBoth ==
    [][\A c \in Conns, roomCode \in RoomCodes, role \in Roles, peerId \in PeerIds :
        LET room == RoomOf(rooms, roomCode)
        IN  (/\ handleJoin(c, roomCode, role, peerId)
             /\ Len(room) < 2
             /\ \A k \in 1..Len(room) : room[k].role # role)
            => IF Len(room) = 1
               THEN /\ Len(sent') = 3
                    /\ SendSet(sent') =
                         {Send(c, c, JoinedMsg(roomCode, role)),
                          Send(c, room[1].ws, PeerJoinedMsg(role, peerId)),
                          Send(c, c, PeerJoinedMsg(room[1].role, room[1].peerId))}
               ELSE sent' = <<Send(c, c, JoinedMsg(roomCode, role))>>]_vars

\* C8: when a connection that is listed in a room sends leave or closes, every
\* other connection listed in that room receives exactly one peer-left, and after
\* every event no room of the table is empty.
C8_LeaveNotifiesRemaining ==
    [][/\ \A c \in Conns :
            (Leave(c) \/ Close(c))
            => \A r \in DOMAIN rooms :
                   \A k \in 1..Len(rooms[r]), j \in 1..Len(rooms[r]) :
                       (rooms[r][k].ws = c /\ rooms[r][j].ws # c)
                       => CountSends(sent', rooms[r][j].ws, "peer-left") = 1
       /\ \A r \in DOMAIN rooms' : Len(rooms'[r]) > 0]_vars

\* C9: every offer the relay sends goes to the connection listed with the
\* receiver role in the room the offer named, and every answer to the connection
\* listed with the sender role in the room the answer named.
C9_OfferToReceiverAnswerToSender ==
    [][\A i \in 1..Len(sent') :
        /\ sent'[i].msg.type = "offer"
           => \E roomCode \in RoomCodes :
                 /\ handleOffer(sent'[i].from, roomCode, TRUE)
                 /\ Holds(rooms, roomCode, sent'[i].to, "receiver")
        /\ sent'[i].msg.type = "answer"
           => \E roomCode \in RoomCodes :
                 /\ handleAnswer(sent'[i].from, roomCode, TRUE)
                 /\ Holds(rooms, roomCode, sent'[i].to, "sender")]_vars

\* An offer was forwarded to another connection.
C9_Witness ==
    \E c \in Conns, d \in Conns :
        c # d /\ sent = <<Send(c, d, ForwardMsg("offer"))>>

\* C10: an ice-candidate is forwarded to a member whose role is not the role the
\* sending connection joined with, and never back to the connection that sent it.
C10_IceCandidateToOtherPeer ==
    \A i \in 1..Len(sent) :
        sent[i].msg.type = "ice-candidate"
        => /\ sent[i].to # sent[i].from
           /\ \E r \in DOMAIN rooms, role \in Roles :
                 /\ Holds(rooms, r, sent[i].from, role)
                 /\ Holds(rooms, r, sent[i].to, TargetRole(role))

\* C11: a message that cannot be parsed, a join without roomCode, role or peerId,
\* an offer or answer without roomCode or sdp, and an ice-candidate without
\* roomCode or candidate are each answered by an error sent to the connection
\* they came from, and leave the room table as it was.
C11_MalformedGetsError ==
    [][\A c \in Conns :
        (\/ messageUnparseable(c)
         \/ \E roomCode \in RoomCodes \cup {NoValue}, role \in Roles \cup {NoRole},
               peerId \in PeerIds \cup {NoValue} :
               /\ roomCode = NoValue \/ role = NoRole \/ peerId = NoValue
               /\ handleJoin(c, roomCode, role, peerId)
         \/ \E roomCode \in RoomCodes \cup {NoValue}, hasSdp \in BOOLEAN :
               /\ roomCode = NoValue \/ ~hasSdp
               /\ handleOffer(c, roomCode, hasSdp) \/ handleAnswer(c, roomCode, hasSdp)
         \/ \E roomCode \in RoomCodes \cup {NoValue}, role \in Roles \cup {NoRole},
               hasCandidate \in BOOLEAN :
               /\ roomCode = NoValue \/ ~hasCandidate
               /\ handleIceCandidate(c, roomCode, role, hasCandidate))
        => /\ rooms' = rooms
           /\ \E i \in 1..Len(sent') : sent'[i].to = c /\ sent'[i].msg.type = "error"]_vars

\* ------------------------------------------ properties of the candidate queue
\* The elements of s that are in the set S, in the order of s.
Restrict(s, S) == SelectSeq(s, LAMBDA x : x \in S)

SeqRange(s) == {s[i] : i \in 1..Len(s)}

\* C3: while the peer connection has no remote description every candidate that
\* arrived is in the queue, in arrival order, and none has been added; from then
\* on the queued candidates are added in queue order, each once: those already
\* added, those the flush still holds and those still in the queue make up the
\* queue as it was filled, and when the handler is done all of them are added.
C3_QueuedThenFlushedInOrder ==
    /\ ~remoteDescription
       => /\ pendingIceCandidatesRef = [i \in 1..arrived |-> i]
          /\ addIceCandidateCalls = <<>>
    /\ Restrict(addIceCandidateCalls, SeqRange(queuedLog))
         \o queuedCandidates \o pendingIceCandidatesRef = queuedLog
    /\ negotiation = "done"
       => /\ remoteDescription
          /\ Restrict(addIceCandidateCalls, SeqRange(queuedLog)) = queuedLog

\* Two candidates were queued, a third arrived after the remote description was
\* set, and the handler has finished its flush.
C3_Witness ==
    /\ negotiation = "done"
    /\ Len(queuedLog) >= 2
    /\ arrived > Len(queuedLog)
    /\ Len(addIceCandidateCalls) = arrived

\* C4: remote candidates are passed to the peer connection in the order they
\* arrived, under every interleaving of arrivals with the awaits of handleOffer,
\* handleAnswer and the flush.
C4_AddedInArrivalOrder ==
    \A i, j \in 1..Len(addIceCandidateCalls) :
        i < j => addIceCandidateCalls[i] < addIceCandidateCalls[j]

\* ------------------------------------------------ chunked transfer properties

CeilDiv(n, d) == (n + d - 1) \div d

\* The byte runs the chunk messages in flight carry, oldest first.
InFlightData ==
    [i \in 1..Len(SelectSeq(channel, LAMBDA m : m.type = "file-chunk")) |->
        ChunkArray(SelectSeq(channel, LAMBDA m : m.type = "file-chunk")[i].data)]

\* The runs are, in order, the bytes 0 .. size-1 of the file.
IsWholeFile(runs, size) ==
    /\ runs # <<>>
    /\ runs[1].start = 0
    /\ \A i \in 1..(Len(runs) - 1) : runs[i + 1].start = runs[i].start + runs[i].byteLength
    /\ runs[Len(runs)].start + runs[Len(runs)].byteLength = size

\* A chunk is CHUNK_SIZE bytes long, or shorter and the last of the file.
WellSized(run) ==
    /\ run.byteLength >= 1
    /\ run.byteLength <= CHUNK_SIZE
    /\ run.byteLength < CHUNK_SIZE => run.start + run.byteLength = fileSize

\* C1: in P2PFileShare a file of N >= 1 bytes leaves the sender as ceil(N / CHUNK_SIZE)
\* file-chunk messages, each CHUNK_SIZE bytes long except a shorter last one, N bytes
\* in all; what the receiver downloads once everything sent has arrived is the
\* chunks in arrival order, and it is the source file byte for byte.
C1_ChunkingAndReassembly ==
    (component = "P2PFileShare" /\ fileSize >= 1)
    => /\ offset = Min(chunksSent * CHUNK_SIZE, fileSize)
       /\ senderStatus = "complete"
          => /\ chunksSent = CeilDiv(fileSize, CHUNK_SIZE)
             /\ offset = fileSize
       /\ \A i \in 1..Len(chunksRef) : WellSized(chunksRef[i])
       /\ \A i \in 1..Len(InFlightData) : WellSized(InFlightData[i])
       /\ Len(downloads) <= 1
       /\ \A i \in 1..Len(downloads) : IsWholeFile(downloads[i], fileSize)
       /\ (transport = "loopback" /\ senderStatus = "complete" /\ connOpen /\ channel = <<>>)
          => /\ Len(downloads) = 1
             /\ Len(downloads[1]) = chunksSent

\* A file of two whole chunks and a shorter third has been sent and downloaded.
C1_Witness ==
    /\ component = "P2PFileShare"
    /\ fileSize = 2 * CHUNK_SIZE + 10000
    /\ senderStatus = "complete"
    /\ chunksSent = 3
    /\ Len(downloads) = 1

\* C2: no chunk is handed to the channel while bufferedAmount is above
\* MAX_BUFFERED_AMOUNT; a sender that finds it above the mark waits on its timer
\* and sends the next chunk only after a sendNextChunk has found it at or below
\* the mark and started the read of that chunk.
C2_Backpressure ==
    [][ /\ bufferedAmount > MAX_BUFFERED_AMOUNT => chunksSent' = chunksSent
        /\ chunksSent' # chunksSent
           => /\ scheduled = "reader"
              /\ bufferedAmount <= MAX_BUFFERED_AMOUNT
        /\ (connOpen' /\ sendingRef' /\ bufferedAmount' > MAX_BUFFERED_AMOUNT)
           => scheduled' = "timer"
        /\ (scheduled' = "timer" /\ scheduled # "timer")
           => bufferedAmount' > MAX_BUFFERED_AMOUNT
      ]_vars

\* A transfer that was held back above the mark has gone on and finished.
C2_Witness ==
    /\ stalled
    /\ senderStatus = "complete"
    /\ offset = LargeFileSize
    /\ chunksSent * CHUNK_SIZE > MAX_BUFFERED_AMOUNT + CHUNK_SIZE

\* ------------------------------------------------------ registry properties

\* C12 as stated: a create with a file name and a size returns a 6-digit code,
\* and a get of that code right after it, within the 30 minutes, returns a live
\* session with the
\* submitted fileName, fileSize and fileType, no offer, no answer and no candidates.
C12_CreateThenGetAsSubmitted ==
    [][\A p \in Procs :
        (/\ req[p].op \in {"POST get", "POST set"}
         /\ req'[p].op = "done"
         /\ req[p].op = "POST set" => now' < req[p].expireAt)
        => LET body == req[p].create
               got == GetResponse(sessions'[resp'[p].code], now', resp'[p].code)
           IN  /\ resp'[p].status = 201
               /\ Digits(resp'[p].code) = 6
               /\ got.status = 200
               /\ got.json.fileName = body.fileName
               /\ got.json.fileSize = body.fileSize
               /\ got.json.fileType = body.fileType
               /\ got.json.senderOffer = "null"
               /\ got.json.receiverAnswer = "null"
               /\ got.json.senderIceCandidates = <<>>
               /\ got.json.receiverIceCandidates = <<>>]_vars

\* C12: a create that returns 201 returns a 6-digit code, and a get of that code
\* right after it, within the 30 minutes, returns a live session with the submitted fileName and
\* fileSize, with the submitted fileType or, when that is empty,
\* application/octet-stream, and with no offer, no answer and no candidates.
C12_CreateThenGet ==
    [][\A p \in Procs :
        (req[p].op = "POST set" /\ req'[p].op = "done" /\ now' < req[p].expireAt)
        => LET body == req[p].create
               got == GetResponse(sessions'[resp'[p].code], now', resp'[p].code)
           IN  /\ resp'[p].status = 201
               /\ Digits(resp'[p].code) = 6
               /\ resp'[p].code >= 100000
               /\ got.status = 200
               /\ got.json.fileName = body.fileName
               /\ got.json.fileSize = body.fileSize
               /\ got.json.fileType =
                    (IF body.fileType = "" THEN "application/octet-stream" ELSE body.fileType)
               /\ got.json.senderOffer = "null"
               /\ got.json.receiverAnswer = "null"
               /\ got.json.senderIceCandidates = <<>>
               /\ got.json.receiverIceCandidates = <<>>]_vars

\* A create without a file type has returned its code and the session is there.
C12_Witness ==
    \E p \in Procs :
        /\ resp[p].op = "POST"
        /\ resp[p].status = 201
        /\ sessions[resp[p].code].exists
        /\ sessions[resp[p].code].fileName = "a.txt"
        /\ sessions[resp[p].code].fileType = "application/octet-stream"

\* C13: the ref.set() of a create never replaces a session that is active and
\* not expired, whatever other request runs at the same time; so no two creates
\* return a code for one and the same live session.
C13_CreateNeverOverwritesLive ==
    [][\A p \in Procs :
        (req[p].op = "POST set" /\ req'[p].op = "done")
        => ~(sessions[req[p].code].exists /\ ~Stale(sessions[req[p].code], now))]_vars

\* C14: a create reads at most 50 codes; it gives up, with the allocation error
\* and without having written a document, only after 50 codes that all named
\* live sessions; and a drawn code whose session has expired or is inactive is
\* taken for the new session, which replaces the old one.
C14_BoundedAttemptsAndReuse ==
    [][\A p \in Procs :
        /\ req'[p].attempts <= 50
        /\ (req[p].op \in {"idle", "POST get"} /\ resp'[p].op = "POST" /\ resp'[p].status = 500)
           => /\ req[p].op = "POST get"
              /\ req[p].attempts = 49
              /\ \E r \in Randoms :
                    /\ POSTretry(p, r)
                    /\ sessions[generateCode(r)].exists
                    /\ sessions[generateCode(r)].active
                    /\ now < sessions[generateCode(r)].expireAt
              /\ sessions' = sessions
        /\ \A r \in Randoms, body \in CreateBodies :
              LET doc == sessions[generateCode(r)]
              IN  (/\ POST(p, body, r) \/ POSTretry(p, r)
                   /\ body.fileName # ""
                   /\ doc.exists
                   /\ doc.expireAt <= now \/ ~doc.active)
                  => /\ req'[p].op = "POST set"
                     /\ req'[p].code = generateCode(r)
        /\ (req[p].op = "POST set" /\ req'[p].op = "done")
           => /\ sessions'[req[p].code] = NewSession(req[p].create, req[p].expireAt)
              /\ resp'[p].status = 201
              /\ resp'[p].code = req[p].code]_vars

\* One create has given up after its 50th code, another has taken the code of
\* a session that was marked inactive.
C14_Witness ==
    \E p, q \in Procs :
        /\ resp[p].op = "POST" /\ resp[p].status = 500
        /\ resp[q].op = "PATCH" /\ resp[q].status = 200
        /\ \E code \in Codes : sessions[code].exists /\ ~sessions[code].active

\* C15: a get of a session that has expired or is inactive returns 410 and has
\* deleted the session, so that a get of the same code right after it returns 404.
C15_GetOfStaleDeletes ==
    [][\A p \in Procs, code \in Codes :
        (/\ GET(p, code)
         /\ sessions[code].exists
         /\ sessions[code].expireAt <= now \/ ~sessions[code].active)
        => /\ resp'[p].status = 410
           /\ GetResponse(sessions'[code], now', code).status = 404]_vars

IsPrefix(s, t) == Len(s) <= Len(t) /\ \A i \in 1..Len(s) : t[i] = s[i]

Contains(list, x) == \E i \in 1..Len(list) : list[i] = x

\* The fields of a session that an update gives a plain value.
ScalarsOverwritten(body, new) ==
    /\ "senderOffer" \in body.has => new.senderOffer = body.senderOffer
    /\ "receiverAnswer" \in body.has => new.receiverAnswer = body.receiverAnswer
    /\ "senderConnected" \in body.has => new.senderConnected = body.senderConnected
    /\ "receiverConnected" \in body.has => new.receiverConnected = body.receiverConnected
    /\ "active" \in body.has => new.active = body.active

\* C16: an update of a live session leaves each candidate list a prefix of what
\* it becomes, the candidate given is in its list afterwards and the list grows
\* by one element at most; the scalar fields given take the value given.
C16_UpdateAppends ==
    [][\A p \in Procs :
        (req[p].op = "PATCH update" /\ resp'[p].status = 200)
        => LET body == req[p].patch
               old == sessions[req[p].code]
               new == sessions'[req[p].code]
           IN  /\ new.exists
               /\ IsPrefix(old.senderIceCandidates, new.senderIceCandidates)
               /\ IsPrefix(old.receiverIceCandidates, new.receiverIceCandidates)
               /\ "senderIceCandidate" \in body.has
                  => /\ Contains(new.senderIceCandidates, body.senderIceCandidate)
                     /\ Len(new.senderIceCandidates) <= Len(old.senderIceCandidates) + 1
               /\ "receiverIceCandidate" \in body.has
                  => /\ Contains(new.receiverIceCandidates, body.receiverIceCandidate)
                     /\ Len(new.receiverIceCandidates) <= Len(old.receiverIceCandidates) + 1
               /\ ScalarsOverwritten(body, new)]_vars

\* Two updates have been applied to one session: a candidate was appended to a
\* list that held one already, and an answer was stored.
C16_Witness ==
    \E p \in Procs, q \in Procs, code \in Codes :
        /\ p # q
        /\ resp[p] = Response("PATCH", 200, code, NoJson)
        /\ resp[q] = Response("PATCH", 200, code, NoJson)
        /\ sessions[code].exists
        /\ sessions[code].senderIceCandidates = <<StoredCandidate, p>>
        /\ sessions[code].receiverAnswer = "answer"

\* Request p was an update that appended a candidate to session code and
\* returned success.
AppendedTo(p, code) ==
    /\ req[p].op = "done"
    /\ resp[p] = Response("PATCH", 200, code, NoJson)
    /\ \/ "senderIceCandidate" \in req[p].patch.has
       \/ "receiverIceCandidate" \in req[p].patch.has

\* What a get returns shows the candidate that update p appended.
Shows(json, p) ==
    /\ "senderIceCandidate" \in req[p].patch.has
       => Contains(json.senderIceCandidates, req[p].patch.senderIceCandidate)
    /\ "receiverIceCandidate" \in req[p].patch.has
       => Contains(json.receiverIceCandidates, req[p].patch.receiverIceCandidate)

\* C17: once two overlapping updates that append different candidates to the
\* same live session have both returned, a get of the session returns both
\* candidates, whichever lists they went to and however the reads and writes of
\* the two updates were interleaved.
C17_NoLostUpdate ==
    \A p \in Procs, q \in Procs, code \in Codes :
        (/\ p # q
         /\ AppendedTo(p, code)
         /\ AppendedTo(q, code)
         /\ ~Stale(sessions[code], now))
        => LET r == GetResponse(sessions[code], now, code)
           IN  /\ r.status = 200
               /\ Shows(r.json, p)
               /\ Shows(r.json, q)

\* Two updates have appended different candidates to the same list of a live
\* session that held a candidate already.
C17_Witness ==
    \E p \in Procs, q \in Procs, code \in Codes :
        /\ p # q
        /\ AppendedTo(p, code)
        /\ AppendedTo(q, code)
        /\ ~Stale(sessions[code], now)
        /\ req[p].patch.has = {"senderIceCandidate"}
        /\ req[q].patch.has = {"senderIceCandidate"}
        /\ sessions[code].senderIceCandidates = <<StoredCandidate, q, p>>

\* C18: delete returns success whether or not the code is stored, and leaves no
\* session under the code: a delete of a code that is not stored (deleted
\* before, or never created) changes nothing in the registry.
C18_DeleteIdempotent ==
    [][\A p \in Procs, code \in Codes :
        DELETE(p, code)
        => /\ resp'[p] = Response("DELETE", 200, code, NoJson)
           /\ sessions' = [sessions EXCEPT ![code] = NoSession]
           /\ ~sessions[code].exists => sessions' = sessions]_vars

\* A code has been deleted twice, and both deletes returned success.
C18_Witness ==
    \E p \in Procs, q \in Procs, code \in Codes :
        /\ p # q
        /\ resp[p] = Response("DELETE", 200, code, NoJson)
        /\ resp[q] = Response("DELETE", 200, code, NoJson)
        /\ ~sessions[code].exists

Last(s) == s[Len(s)]

\* C19: over one connection the sender hands the channel one file-meta message
\* at most, which carries the name and the size of the file and comes before
\* every file-chunk message; each file-chunk message starts where the one
\* before it ended, so the chunks go out in increasing order of file offset.
C19_MetaThenChunksInOrder ==
    [][ /\ metaSent' <= 1
        /\ metaSent' # metaSent
           => /\ chunksSent = 0
              /\ transport = "loopback"
                 => Last(channel') = [type |-> "file-meta", name |-> FileName,
                                      size |-> fileSize, data |-> [kind |-> "none"]]
        /\ chunksSent' # chunksSent
           => /\ metaSent = 1
              /\ offset = chunksSent * CHUNK_SIZE
              /\ offset' > offset
              /\ transport = "loopback"
                 => /\ Last(channel').type = "file-chunk"
                    /\ \A i \in 1..Len(channel) :
                          \/ channel[i].type = "file-meta"
                          \/ component = "P2PFileShare"
                             => channel[i].data.start < offset
                    /\ component = "P2PFileShare" => Last(channel').data.start = offset
      ]_vars

\* The metadata and the three chunks of a file are in flight, in that order.
C19_Witness ==
    /\ component = "P2PFileShare"
    /\ metaSent = 1
    /\ chunksSent = 3
    /\ Len(channel) = 4
    /\ channel[1].type = "file-meta"
    /\ channel[1].name = FileName
    /\ \A i \in 2..4 : channel[i].data.start = (i - 2) * CHUNK_SIZE

\* blob.size of new Blob(chunks)
RECURSIVE BlobSize(_)
BlobSize(chunks) ==
    IF chunks = <<>> THEN 0 ELSE Head(chunks).byteLength + BlobSize(Tail(chunks))

\* completeFileReceive runs in this step.
Finalizes == downloads' # downloads

\* C20: the receiver finalizes in the step in which a chunk takes its running
\* byte total to the declared size or beyond, and in no other step; what it
\* downloads is every chunk received since the metadata, in arrival order, not
\* fewer bytes than declared; the chunk buffer is then empty and the transfer
\* reported complete.
C20_FinalizesAtDeclaredSize ==
    [][ /\ Finalizes <=> (receivedSizeRef' > receivedSizeRef /\ receivedSizeRef' >= totalSizeRef)
        /\ Finalizes
           => /\ Len(downloads') = Len(downloads) + 1
              /\ Len(Last(downloads')) = Len(chunksRef) + 1
              /\ \A i \in 1..Len(chunksRef) : Last(downloads')[i] = chunksRef[i]
              /\ Last(Last(downloads')) = ChunkArray(Head(channel).data)
              /\ BlobSize(Last(downloads')) = receivedSizeRef'
              /\ BlobSize(Last(downloads')) >= totalSizeRef
              /\ totalSizeRef = fileSize
              /\ chunksRef' = <<>>
              /\ receiverStatus' = "complete"
        /\ receiverStatus' = "complete" => downloads' # <<>>
      ]_vars

\* A file of three chunks has been finalized.
C20_Witness ==
    /\ component = "P2PFileShare"
    /\ fileSize = 2 * CHUNK_SIZE + 1
    /\ Len(downloads) = 1
    /\ Len(downloads[1]) = 3
    /\ BlobSize(downloads[1]) = fileSize
    /\ chunksRef = <<>>
    /\ receiverStatus = "complete"

\* C21: once the connection has closed without the receiver having got the
\* declared size, the receiver reports an error, and so does the sender as
\* soon as nothing of its send loop is left to run; the sender never reports
\* success.
C21_ClosedEarlyIsError ==
    (component = "P2PFileShare" /\ fileSize >= 1 /\ ~connOpen /\ downloads = <<>>)
    => /\ receiverStatus = "error"
       /\ senderStatus # "complete"
       /\ scheduled = "none" => senderStatus = "error"

\* C22: a call of sendFileInChunks that finds a send in flight emits no
\* message and leaves the running send loop as it is; no second loop is ever
\* started over the connection (each loop starts with its own file-meta).
C22_OneSendLoop ==
    [][ /\ metaSent' <= 1
        /\ ignoredCalls' # ignoredCalls
           => /\ sendingRef
              /\ sendingRef'
              /\ channel' = channel
              /\ bufferedAmount' = bufferedAmount
              /\ metaSent' = metaSent
              /\ chunksSent' = chunksSent
              /\ offset' = offset
              /\ scheduled' = scheduled
      ]_vars

\* A call was turned away after two chunks, and the one send loop went on to
\* send the third chunk and finish.
C22_Witness ==
    /\ ignoredCalls = 1
    /\ senderStatus = "complete"
    /\ metaSent = 1
    /\ chunksSent = 3
    /\ offset = fileSize

\* ------------------------------------- properties of the connection attempts
\* The connections whose attempt is in flight: made, and neither open nor
\* failed nor closed.
InFlight == {i \in 1..Len(conns) : conns[i].state = "awaiting"}

\* C23: the attempts a sender starts are numbered 1, 2, 3, 4 in the order they
\* start, each the one retry of the attempt before it, and there are four at
\* most.
C23_BoundedRetry ==
    ctxRole = "sender"
    => /\ Len(conns) <= PEER_MAX_CONNECT_ATTEMPTS
       /\ \A i \in 1..Len(conns) : conns[i].attempt = i

\* C24: the 'open' event of a sender's connection that is not the newest one
\* made neither installs that connection as connectionRef.current nor starts a
\* file send.
C24_SupersededStaysDead ==
    [][\A i \in 1..Len(conns) :
        (ctxRole = "sender" /\ i < Len(conns) /\ connOnOpen(i))
        => /\ connectionRef' # i
           /\ sendingRef' = sendingRef
           /\ conns'[i].state # "open"]_vars

\* A step that does nothing a user or the peer can see: it starts no attempt,
\* opens and installs no connection, schedules no retry, and leaves the mode,
\* the code, the error, the peer, the send loop and the deletes as they were.
NoOpStep ==
    /\ \A j \in 1..Len(conns') :
          conns'[j].state \in {"awaiting", "open"}
          => j <= Len(conns) /\ conns[j].state = conns'[j].state
    /\ connectionRef' \in {connectionRef, 0}
    /\ Len(retries') <= Len(retries)
    /\ UNCHANGED <<mode, codeState, error, peerRef, sendingRef, deletes, aborted>>

\* A callback of the connection context runs: the retry timer, a snapshot, a
\* failure of an attempt, a connection's 'open', the receiver's wait timer, an
\* incoming connection.
ContextCallback ==
    \/ retryTimer
    \/ onSnapshot
    \/ \E i \in 1..MaxConnections, reason \in Reasons : attemptFails(i, reason)
    \/ \E i \in 1..MaxConnections : connOnOpen(i)
    \/ receiverWaitTimeout
    \/ peerOnConnection

\* C25: once the context is marked aborted, every later callback of it is a
\* no-op.
C25_AbortedIsInert == [][(aborted /\ ContextCallback) => NoOpStep]_vars

\* The retry timer of a failed attempt 1 has fired in an aborted context and
\* has started nothing.
C25_Witness ==
    /\ aborted
    /\ ctxRole = "sender"
    /\ retries = <<>>
    /\ Len(conns) = 1
    /\ conns[1].state = "failed"

\* cleanup() runs for a peer that has not been torn down yet: it is the only
\* code that destroys the peer.
TearsDown == peerRef \in {"created", "open"} /\ peerRef' = "destroyed"

\* C26: a cleanup of the sender, which has created its session, aborts the
\* attempt in progress, closes the transport and issues the delete of the
\* session; a cleanup of the receiver issues no delete.
C26_SenderCleanupDeletes ==
    [][TearsDown
       => IF ctxRole = "sender"
          THEN /\ deletes' = deletes + 1
               /\ connectionRef' = 0
               /\ connectAttemptRef = "ctx" => aborted'
          ELSE deletes' = deletes]_vars

\* C27: whenever an error message is displayed, the client is in mode idle.
C27_ErrorMeansIdle == error # NoError => mode = "idle"

\* C28: an attempt that fails because ICE gathering completed with no local
\* candidate surfaces the no-route message at once and schedules no retry.
C28_NoIceIsImmediate ==
    [][\A i \in 1..MaxConnections :
        (~aborted /\ attemptFails(i, "no-ice"))
        => error' = NoRouteMessage /\ retries' = retries]_vars

\* C29: when the last attempt fails in a live context, the message displayed is
\* the no-route message exactly if the reason is 'no-ice', the generic message
\* for every other reason, and the client is idle.
C29_TerminalMessage ==
    [][\A i \in 1..MaxConnections, reason \in Reasons :
        (/\ attemptFails(i, reason)
         /\ ~aborted
         /\ ~MayRetry(conns[i].attempt))
        => /\ (error' = NoRouteMessage) <=> (reason = "no-ice")
           /\ (error' = GenericMessage) <=> (reason # "no-ice")
           /\ mode' = "idle"
           /\ retries' = retries]_vars

\* The fourth attempt has failed and the no-route message is displayed.
C29_Witness ==
    /\ ctxRole = "sender"
    /\ error = NoRouteMessage
    /\ \E i \in 1..Len(conns) :
          conns[i].attempt = PEER_MAX_CONNECT_ATTEMPTS /\ conns[i].state = "closed"

\* C30: at most one attempt of the sender is in flight, and none is in flight
\* while a retry is pending.
C30_OneAttemptInFlight ==
    ctxRole = "sender"
    => /\ Cardinality(InFlight) <= 1
       /\ retries # <<>> => InFlight = {}

\* ------------------------------------------ membership properties of the relay
\* Connection d is listed in room roomCode of table m.
Member(m, roomCode, d) ==
    /\ roomCode \in DOMAIN m
    /\ \E k \in 1..Len(m[roomCode]) : m[roomCode][k].ws = d

\* C34: every peer-left the relay sends goes to a member of a room in which the
\* connection that left or closed was listed as a member too.
C34_PeerLeftFromMembersOnly ==
    [][\A i \in 1..Len(sent') :
        sent'[i].msg.type = "peer-left"
        => \E r \in DOMAIN rooms :
              Member(rooms, r, sent'[i].from) /\ Member(rooms, r, sent'[i].to)]_vars

\* C35: no room lists a connection that has closed.
C35_ClosedIsNowhere ==
    \A c \in Conns :
        ~open[c] => \A r \in DOMAIN rooms : ~Member(rooms, r, c)

\* C36: every offer, answer and ice-candidate the relay forwards comes from a
\* connection that is listed in the room of the connection it is sent to.
C36_ForwardFromMembersOnly ==
    [][\A i \in 1..Len(sent') :
        sent'[i].msg.type \in {"offer", "answer", "ice-candidate"}
        => \E r \in DOMAIN rooms :
              Member(rooms, r, sent'[i].from) /\ Member(rooms, r, sent'[i].to)]_vars

\* ------------------------------------------ properties of the polling variant
\* The candidates passed to peer.signal, in call order.
CandidatesSignalled == SelectSeq(signals, LAMBDA x : x.type = "candidate")

\* C33: the candidates passed to the local peer are the entries 1, 2, ... of the
\* remote peer's list, each once and in list order, and the answer is passed at
\* most once.
C33_EachCandidateOnce ==
    /\ Len(CandidatesSignalled) <= remoteCandidates
    /\ \A i \in 1..Len(CandidatesSignalled) : CandidatesSignalled[i].index = i
    /\ Len(SelectSeq(signals, LAMBDA x : x.type = "answer")) <= 1

\* --------------------------------- properties of the end of an attempt, teardown
\* C31: once an attempt of the sender has ended, by its connection opening or by
\* a failure, neither its 'open' listener nor its timeout, inspection, 'error',
\* 'close' or ICE-state handler acts again.
C31_EndedAttemptIsSilent ==
    [][\A i \in 1..Len(conns) :
        (ctxRole = "sender" /\ conns[i].state # "awaiting")
        => /\ ~connOnOpen(i)
           /\ \A reason \in Reasons : ~attemptFails(i, reason)]_vars

\* The connection, the peer, the listeners and the timers of the client have
\* been torn down.
TornDown ==
    /\ peerRef = "destroyed"
    /\ connectionRef = 0
    /\ ~subscribed
    /\ ~receiverConnectTimeoutRef

\* C32: a run of cleanup on a client already torn down (by cancel, or by the
\* timer set on completion) leaves everything cleanup manages as the first run
\* left it.
C32_TeardownIdempotent ==
    [][(TornDown /\ (handleCancel \/ completionTimer))
       => UNCHANGED <<aborted, receiverConnectTimeoutRef, subscribed, conns, connectionRef,
                      peerRef, sendingRef, totalSizeRef, receivedSizeRef>>]_vars

\* cleanup has run twice.
C32_Witness == TornDown /\ cleanups >= 2

\* ------------------------------------------ properties of the end of a transfer
\* C38: when the cleanup that follows the sender's report of success closes the
\* connection of a transfer of a file that is not empty, nothing the sender has
\* sent is still undelivered, and the receiver has the declared size.
C38_CleanupAfterDelivery ==
    [][(postSuccessCleanup /\ connOpen /\ fileSize > 0)
       => channel = <<>> /\ receiverStatus = "complete"]_vars

\* C39: in the WebSocket-signaled component, once everything the sender has
\* emitted for a file that is not empty has been delivered, the receiver's
\* running total is the number of bytes emitted, and a sender that has emitted
\* the whole file has driven the receiver to finalize.
C39_TotalGrowsByChunkLength ==
    (/\ component = "P2PFileShareWebRTC"
     /\ transport = "loopback"
     /\ fileSize > 0
     /\ metaSent >= 1
     /\ connOpen
     /\ channel = <<>>)
    => /\ receivedSizeRef = offset
       /\ senderStatus = "complete" => Len(downloads) = 1

\* ------------------------------------------------ frame of a registry update
\* C37: an update that is applied leaves fileName, fileSize, fileType and
\* expireAt of its session as they were, changes no field its body does not
\* name, and changes no other session.
C37_UpdateFrame ==
    [][\A p \in Procs :
        (PATCHupdate(p) /\ resp'[p].status = 200)
        => LET body == req[p].patch
               old == sessions[req[p].code]
               new == sessions'[req[p].code]
           IN  /\ new.fileName = old.fileName
               /\ new.fileSize = old.fileSize
               /\ new.fileType = old.fileType
               /\ new.createdAt = old.createdAt
               /\ new.expireAt = old.expireAt
               /\ new.exists = old.exists
               /\ "senderOffer" \notin body.has => new.senderOffer = old.senderOffer
               /\ "receiverAnswer" \notin body.has => new.receiverAnswer = old.receiverAnswer
               /\ "senderIceCandidate" \notin body.has
                  => new.senderIceCandidates = old.senderIceCandidates
               /\ "receiverIceCandidate" \notin body.has
                  => new.receiverIceCandidates = old.receiverIceCandidates
               /\ "senderConnected" \notin body.has
                  => new.senderConnected = old.senderConnected
               /\ "receiverConnected" \notin body.has
                  => new.receiverConnected = old.receiverConnected
               /\ "active" \notin body.has => new.active = old.active
               /\ \A code \in DOMAIN sessions :
                     code # req[p].code => sessions'[code] = sessions[code]]_vars

\* An update that names the offer, the answer and the two flags has been applied
\* to a session, whose file fields and expiry are those of its creation.
C37_Witness ==
    \E p \in Procs, code \in Codes :
        /\ resp[p] = Response("PATCH", 200, code, NoJson)
        /\ req[p].op = "done"
        /\ "senderOffer" \in req[p].patch.has
        /\ sessions[code].exists
        /\ sessions[code].senderOffer = "offer"
        /\ sessions[code].fileName # ""
        /\ sessions[code].createdAt = sessions[code].expireAt - TTL

\* ------------------------------------------------ properties of the signalling
\* Both clients are members of the room.
BothJoined == Len(relayRoom) = 2

\* The sender has created one offer, the receiver has received it and the sender
\* has received the answer.
Handshaken == offersCreated = 1 /\ offersHandled >= 1 /\ answersHandled >= 1

HandshakeOfOnePeerId ==
    (BothJoined /\ peerIdRef["sender"] = peerIdRef["receiver"]) ~> (Handshaken \/ left)

SenderFirstHandshaken ==
    /\ BothJoined
    /\ relayRoom[1].role = "sender"
    /\ ~left
    /\ Handshaken

====
